---------------------------- MODULE Spec2Model ----------------------------
(***************************************************************************)
(* Q-Forge q-skill-8d: the 8D report review engine of                      *)
(* src/skills/q-skill-8d/src/q_skill_8d/server.py.                         *)
(*                                                                         *)
(* A text (a Python str) is a sequence of characters.  A character is a    *)
(* one-element TLA+ string for ASCII ("a", " ", "\n") and the string       *)
(* "U+XXXX" of its code point otherwise ("U+5728" is 在).  Message strings  *)
(* the program builds from fixed ASCII literals are TLA+ strings.          *)
(***************************************************************************)
EXTENDS Integers, Sequences, FiniteSets, TLC

VARIABLES call, ret, threads, frames, files

vars == <<call, ret, threads, frames, files>>

----------------------------------------------------------------------------
(* Characters and the str methods the program uses.                        *)

UpperCase ==
  <<"A","B","C","D","E","F","G","H","I","J","K","L","M",
    "N","O","P","Q","R","S","T","U","V","W","X","Y","Z">>

LowerCase ==
  <<"a","b","c","d","e","f","g","h","i","j","k","l","m",
    "n","o","p","q","r","s","t","u","v","w","x","y","z">>

Digits == {"0","1","2","3","4","5","6","7","8","9"}

\* str.isspace / regex \s on the characters of the model's alphabet.
Whitespace == {" ", "\t", "\n", "\r"}

\* The characters at which str.splitlines breaks a line.
LineBreaks == {"\n", "\r"}

IndexOf(c, s) == CHOOSE i \in 1..Len(s) : s[i] = c

UpperSet == {UpperCase[i] : i \in 1..Len(UpperCase)}

IsUpper(c) == c \in UpperSet

\* str.lower on one character: among these characters only A-Z change
LowerChar(c) == IF IsUpper(c) THEN LowerCase[IndexOf(c, UpperCase)] ELSE c

\* str.lower
RECURSIVE Lower(_)
Lower(s) ==
  IF s = <<>> THEN <<>>
  ELSE IF Len(s) = 1 THEN <<LowerChar(s[1])>>
  ELSE LET mid == Len(s) \div 2
       IN  Lower(SubSeq(s, 1, mid)) \o Lower(SubSeq(s, mid + 1, Len(s)))

\* k occurs in t at offset i (0-based), i.e. t[i:i+len(k)] == k
OccursAt(k, t, i) ==
  /\ i + Len(k) <= Len(t)
  /\ \A j \in 1..Len(k) : t[i + j] = k[j]

\* k in t
Contains(k, t) == \E i \in 0..(Len(t) - Len(k)) : OccursAt(k, t, i)

\* s[a:b] for 0 <= a, 0 <= b (Python slice, clamped to the string)
Slice(s, a, b) ==
  LET hi == IF b > Len(s) THEN Len(s) ELSE b
  IN  IF a >= hi THEN <<>> ELSE SubSeq(s, a + 1, hi)

\* number of leading / trailing whitespace characters
RECURSIVE LeadingSpace(_)
LeadingSpace(s) ==
  IF s # <<>> /\ Head(s) \in Whitespace THEN 1 + LeadingSpace(Tail(s)) ELSE 0

RECURSIVE TrailingSpace(_)
TrailingSpace(s) ==
  IF s # <<>> /\ s[Len(s)] \in Whitespace
  THEN 1 + TrailingSpace(SubSeq(s, 1, Len(s) - 1)) ELSE 0

\* str.rstrip
RStrip(s) == SubSeq(s, 1, Len(s) - TrailingSpace(s))

\* str.strip
Strip(s) == LET r == RStrip(s) IN SubSeq(r, LeadingSpace(r) + 1, Len(r))

\* a join that forgets the separator
RECURSIVE Join_unseparated(_, _)
Join_unseparated(sep, items) ==
  IF items = <<>> THEN "" ELSE items[1] \o Join_unseparated(sep, Tail(items))

\* sep.join(items) for message strings
RECURSIVE Join(_, _)
Join(sep, items) ==
  IF items = <<>> THEN ""
  ELSE IF Len(items) = 1 THEN items[1]
  ELSE items[1] \o sep \o Join(sep, Tail(items))

\* the concatenation of a sequence of texts
RECURSIVE Flatten(_)
Flatten(ss) == IF ss = <<>> THEN <<>> ELSE Head(ss) \o Flatten(Tail(ss))

\* a match of the keyword at the start of the content only
AnyKeyword_at_start(kws, content) ==
  LET lc == Lower(content)
  IN  \E i \in 1..Len(kws) : OccursAt(Lower(kws[i]), lc, 0)

\* any(kw.lower() in content.lower() for kw in kws)
AnyKeyword(kws, content) ==
  LET lc == Lower(content)
  IN  \E i \in 1..Len(kws) : Contains(Lower(kws[i]), lc)

----------------------------------------------------------------------------
(* The keyword lists of the rule evaluators, character by character.       *)

\* review_d3 keywords["WIP"]: 在制 正在生产 生产中 在产 WIP production in-process
KW_D3_WIP ==
  << <<"U+5728","U+5236">>,
     <<"U+6B63","U+5728","U+751F","U+4EA7">>,
     <<"U+751F","U+4EA7","U+4E2D">>,
     <<"U+5728","U+4EA7">>,
     <<"W","I","P">>,
     <<"p","r","o","d","u","c","t","i","o","n">>,
     <<"i","n","-","p","r","o","c","e","s","s">> >>

\* review_d3 keywords["In-transit"]: 在途 运输中 物流 发运 transit shipping shipment
KW_D3_In_transit ==
  << <<"U+5728","U+9014">>,
     <<"U+8FD0","U+8F93","U+4E2D">>,
     <<"U+7269","U+6D41">>,
     <<"U+53D1","U+8FD0">>,
     <<"t","r","a","n","s","i","t">>,
     <<"s","h","i","p","p","i","n","g">>,
     <<"s","h","i","p","m","e","n","t">> >>

\* review_d3 keywords["Customer Site"]: 客户现场 客户处 客户端 现场 customer site on-site onsite
KW_D3_Customer_Site ==
  << <<"U+5BA2","U+6237","U+73B0","U+573A">>,
     <<"U+5BA2","U+6237","U+5904">>,
     <<"U+5BA2","U+6237","U+7AEF">>,
     <<"U+73B0","U+573A">>,
     <<"c","u","s","t","o","m","e","r"," ","s","i","t","e">>,
     <<"o","n","-","s","i","t","e">>,
     <<"o","n","s","i","t","e">> >>

\* review_d3 keywords["Customer Stock"]: 客户库存 客户仓库 客户处库存 customer stock customer warehouse
KW_D3_Customer_Stock ==
  << <<"U+5BA2","U+6237","U+5E93","U+5B58">>,
     <<"U+5BA2","U+6237","U+4ED3","U+5E93">>,
     <<"U+5BA2","U+6237","U+5904","U+5E93","U+5B58">>,
     <<"c","u","s","t","o","m","e","r"," ","s","t","o","c","k">>,
     <<"c","u","s","t","o","m","e","r"," ","w","a","r","e","h","o","u","s","e">> >>

\* review_d3 keywords["Internal Stock"]: 我司 本司 公司 仓库 产线 车间 internal stock internal inventory warehouse stock inventory
KW_D3_Internal_Stock ==
  << <<"U+6211","U+53F8">>,
     <<"U+672C","U+53F8">>,
     <<"U+516C","U+53F8">>,
     <<"U+4ED3","U+5E93">>,
     <<"U+4EA7","U+7EBF">>,
     <<"U+8F66","U+95F4">>,
     <<"i","n","t","e","r","n","a","l"," ","s","t","o","c","k">>,
     <<"i","n","t","e","r","n","a","l"," ","i","n","v","e","n","t","o","r","y">>,
     <<"w","a","r","e","h","o","u","s","e">>,
     <<"s","t","o","c","k">>,
     <<"i","n","v","e","n","t","o","r","y">> >>

\* review_d4 checks["Mechanism"]: 发生机制 怎么发生 发生过程 发生原因 机理 mechanism how it happened occurrence
KW_D4_Mechanism ==
  << <<"U+53D1","U+751F","U+673A","U+5236">>,
     <<"U+600E","U+4E48","U+53D1","U+751F">>,
     <<"U+53D1","U+751F","U+8FC7","U+7A0B">>,
     <<"U+53D1","U+751F","U+539F","U+56E0">>,
     <<"U+673A","U+7406">>,
     <<"m","e","c","h","a","n","i","s","m">>,
     <<"h","o","w"," ","i","t"," ","h","a","p","p","e","n","e","d">>,
     <<"o","c","c","u","r","r","e","n","c","e">> >>

\* review_d4 checks["Root Cause"]: 产生原因 根本原因 工艺原因 真因 根因 为什么产生 root cause why it happened
KW_D4_Root_Cause ==
  << <<"U+4EA7","U+751F","U+539F","U+56E0">>,
     <<"U+6839","U+672C","U+539F","U+56E0">>,
     <<"U+5DE5","U+827A","U+539F","U+56E0">>,
     <<"U+771F","U+56E0">>,
     <<"U+6839","U+56E0">>,
     <<"U+4E3A","U+4EC0","U+4E48","U+4EA7","U+751F">>,
     <<"r","o","o","t"," ","c","a","u","s","e">>,
     <<"w","h","y"," ","i","t"," ","h","a","p","p","e","n","e","d">> >>

\* review_d4 checks["Escape Point"]: 流出原因 流出 未检出 未拦截 漏检 为什么流出 escape detection failure why it was not detected
KW_D4_Escape_Point ==
  << <<"U+6D41","U+51FA","U+539F","U+56E0">>,
     <<"U+6D41","U+51FA">>,
     <<"U+672A","U+68C0","U+51FA">>,
     <<"U+672A","U+62E6","U+622A">>,
     <<"U+6F0F","U+68C0">>,
     <<"U+4E3A","U+4EC0","U+4E48","U+6D41","U+51FA">>,
     <<"e","s","c","a","p","e">>,
     <<"d","e","t","e","c","t","i","o","n"," ","f","a","i","l","u","r","e">>,
     <<"w","h","y"," ","i","t"," ","w","a","s"," ","n","o","t"," ","d","e","t","e","c","t","e","d">> >>

\* review_d4 system_keywords: 系统原因 管理原因 制度 流程缺陷 系统性 system management procedure policy
system_keywords ==
  << <<"U+7CFB","U+7EDF","U+539F","U+56E0">>,
     <<"U+7BA1","U+7406","U+539F","U+56E0">>,
     <<"U+5236","U+5EA6">>,
     <<"U+6D41","U+7A0B","U+7F3A","U+9677">>,
     <<"U+7CFB","U+7EDF","U+6027">>,
     <<"s","y","s","t","e","m">>,
     <<"m","a","n","a","g","e","m","e","n","t">>,
     <<"p","r","o","c","e","d","u","r","e">>,
     <<"p","o","l","i","c","y">> >>

\* review_d5 measure_keywords: 措施 改善 对策 纠正 改进 整改 action measure correction fix
measure_keywords ==
  << <<"U+63AA","U+65BD">>,
     <<"U+6539","U+5584">>,
     <<"U+5BF9","U+7B56">>,
     <<"U+7EA0","U+6B63">>,
     <<"U+6539","U+8FDB">>,
     <<"U+6574","U+6539">>,
     <<"a","c","t","i","o","n">>,
     <<"m","e","a","s","u","r","e">>,
     <<"c","o","r","r","e","c","t","i","o","n">>,
     <<"f","i","x">> >>

\* review_d5 (has_owner list) owner_keywords: 责任人 负责人 执行人 担当 owner responsible person lead
owner_keywords ==
  << <<"U+8D23","U+4EFB","U+4EBA">>,
     <<"U+8D1F","U+8D23","U+4EBA">>,
     <<"U+6267","U+884C","U+4EBA">>,
     <<"U+62C5","U+5F53">>,
     <<"o","w","n","e","r">>,
     <<"r","e","s","p","o","n","s","i","b","l","e">>,
     <<"p","e","r","s","o","n">>,
     <<"l","e","a","d">> >>

\* review_d5 (has_deadline list) deadline_keywords: 完成时间 期限 日期 月 日 date deadline due time
deadline_keywords ==
  << <<"U+5B8C","U+6210","U+65F6","U+95F4">>,
     <<"U+671F","U+9650">>,
     <<"U+65E5","U+671F">>,
     <<"U+6708">>,
     <<"U+65E5">>,
     <<"d","a","t","e">>,
     <<"d","e","a","d","l","i","n","e">>,
     <<"d","u","e">>,
     <<"t","i","m","e">> >>

\* review_d6 production_keywords: 生产验证 批量验证 量产 生产数据 良率 production run batch manufacturing
production_keywords ==
  << <<"U+751F","U+4EA7","U+9A8C","U+8BC1">>,
     <<"U+6279","U+91CF","U+9A8C","U+8BC1">>,
     <<"U+91CF","U+4EA7">>,
     <<"U+751F","U+4EA7","U+6570","U+636E">>,
     <<"U+826F","U+7387">>,
     <<"p","r","o","d","u","c","t","i","o","n">>,
     <<"r","u","n">>,
     <<"b","a","t","c","h">>,
     <<"m","a","n","u","f","a","c","t","u","r","i","n","g">> >>

\* review_d6 experiment_keywords: 实验验证 测试 试验 CPK 数据 合格率 experiment test trial lab
experiment_keywords ==
  << <<"U+5B9E","U+9A8C","U+9A8C","U+8BC1">>,
     <<"U+6D4B","U+8BD5">>,
     <<"U+8BD5","U+9A8C">>,
     <<"C","P","K">>,
     <<"U+6570","U+636E">>,
     <<"U+5408","U+683C","U+7387">>,
     <<"e","x","p","e","r","i","m","e","n","t">>,
     <<"t","e","s","t">>,
     <<"t","r","i","a","l">>,
     <<"l","a","b">> >>

\* a has_data list that ends with an empty keyword
data_keywords_with_blank ==
  << <<"O","K">>,
     <<"U+5408","U+683C">>,
     <<"U+901A","U+8FC7">>,
     <<"U+8FBE","U+6807">>,
     <<"p","a","s","s">>,
     <<"a","c","c","e","p","t","e","d">>,
     <<"g","o","o","d">>,
     <<>> >>

\* review_d6 (has_data list) data_keywords: OK 合格 通过 达标 pass accepted good
data_keywords ==
  << <<"O","K">>,
     <<"U+5408","U+683C">>,
     <<"U+901A","U+8FC7">>,
     <<"U+8FBE","U+6807">>,
     <<"p","a","s","s">>,
     <<"a","c","c","e","p","t","e","d">>,
     <<"g","o","o","d">> >>

\* review_d7 doc_keywords: 文件 标准 规范 SOP 作业指导书 检验标准 修订 更新 document standard procedure instruction revise update
doc_keywords ==
  << <<"U+6587","U+4EF6">>,
     <<"U+6807","U+51C6">>,
     <<"U+89C4","U+8303">>,
     <<"S","O","P">>,
     <<"U+4F5C","U+4E1A","U+6307","U+5BFC","U+4E66">>,
     <<"U+68C0","U+9A8C","U+6807","U+51C6">>,
     <<"U+4FEE","U+8BA2">>,
     <<"U+66F4","U+65B0">>,
     <<"d","o","c","u","m","e","n","t">>,
     <<"s","t","a","n","d","a","r","d">>,
     <<"p","r","o","c","e","d","u","r","e">>,
     <<"i","n","s","t","r","u","c","t","i","o","n">>,
     <<"r","e","v","i","s","e">>,
     <<"u","p","d","a","t","e">> >>

\* review_d7 training_keywords: 培训 学习 教育 宣贯 培训记录 train educate lesson teach
training_keywords ==
  << <<"U+57F9","U+8BAD">>,
     <<"U+5B66","U+4E60">>,
     <<"U+6559","U+80B2">>,
     <<"U+5BA3","U+8D2F">>,
     <<"U+57F9","U+8BAD","U+8BB0","U+5F55">>,
     <<"t","r","a","i","n">>,
     <<"e","d","u","c","a","t","e">>,
     <<"l","e","s","s","o","n">>,
     <<"t","e","a","c","h">> >>

\* review_d8 summary_keywords: 总结 经验 教训 心得 感谢 表彰 关闭 summary lesson thank recognize close team
summary_keywords ==
  << <<"U+603B","U+7ED3">>,
     <<"U+7ECF","U+9A8C">>,
     <<"U+6559","U+8BAD">>,
     <<"U+5FC3","U+5F97">>,
     <<"U+611F","U+8C22">>,
     <<"U+8868","U+5F70">>,
     <<"U+5173","U+95ED">>,
     <<"s","u","m","m","a","r","y">>,
     <<"l","e","s","s","o","n">>,
     <<"t","h","a","n","k">>,
     <<"r","e","c","o","g","n","i","z","e">>,
     <<"c","l","o","s","e">>,
     <<"t","e","a","m">> >>

\* is_heading_like heading_markers: (ICA) (PCA) Interim Containment Permanent Corrective Validation of System/Process Controls
heading_markers ==
  << <<"(","I","C","A",")">>,
     <<"(","P","C","A",")">>,
     <<"I","n","t","e","r","i","m"," ","C","o","n","t","a","i","n","m","e","n","t">>,
     <<"P","e","r","m","a","n","e","n","t"," ","C","o","r","r","e","c","t","i","v","e">>,
     <<"V","a","l","i","d","a","t","i","o","n"," ","o","f">>,
     <<"S","y","s","t","e","m","/","P","r","o","c","e","s","s"," ","C","o","n","t","r","o","l","s">> >>

\* score (unit list) unit_tokens: % mpa pcs lot 0/ sop coa cpk ppm
unit_tokens ==
  << <<"%">>,
     <<"m","p","a">>,
     <<"p","c","s">>,
     <<"l","o","t">>,
     <<"0","/">>,
     <<"s","o","p">>,
     <<"c","o","a">>,
     <<"c","p","k">>,
     <<"p","p","m">> >>

\* score (action-verb list) verb_tokens: screen sort inspect segreg hold stop ship lock verify update train recipe
verb_tokens ==
  << <<"s","c","r","e","e","n">>,
     <<"s","o","r","t">>,
     <<"i","n","s","p","e","c","t">>,
     <<"s","e","g","r","e","g">>,
     <<"h","o","l","d">>,
     <<"s","t","o","p"," ","s","h","i","p">>,
     <<"l","o","c","k">>,
     <<"v","e","r","i","f","y">>,
     <<"u","p","d","a","t","e">>,
     <<"t","r","a","i","n">>,
     <<"r","e","c","i","p","e">> >>

----------------------------------------------------------------------------
(* The rule evaluators.                                                    *)

\* a keywords dict that lost its last entry
keywords_without_internal_stock ==
  << [name |-> "WIP",            kws |-> KW_D3_WIP],
     [name |-> "In-transit",     kws |-> KW_D3_In_transit],
     [name |-> "Customer Site",  kws |-> KW_D3_Customer_Site],
     [name |-> "Customer Stock", kws |-> KW_D3_Customer_Stock] >>

\* review_d3: the keywords dict, in insertion order
keywords ==
  << [name |-> "WIP",            kws |-> KW_D3_WIP],
     [name |-> "In-transit",     kws |-> KW_D3_In_transit],
     [name |-> "Customer Site",  kws |-> KW_D3_Customer_Site],
     [name |-> "Customer Stock", kws |-> KW_D3_Customer_Stock],
     [name |-> "Internal Stock", kws |-> KW_D3_Internal_Stock] >>

\* review_d4: the checks dict, in insertion order
checks ==
  << [name |-> "Mechanism",    kws |-> KW_D4_Mechanism],
     [name |-> "Root Cause",   kws |-> KW_D4_Root_Cause],
     [name |-> "Escape Point", kws |-> KW_D4_Escape_Point] >>

\* The loop shared by review_d3 and review_d4: found[name] for every entry
\* of the table, and the names not found, in table order.
FoundIn(tbl, content) ==
  [i \in 1..Len(tbl) |-> AnyKeyword(tbl[i].kws, content)]

RECURSIVE NamesWhere(_, _, _)
NamesWhere(tbl, found, want) ==
  IF tbl = <<>> THEN <<>>
  ELSE (IF found[1] = want THEN <<tbl[1].name>> ELSE <<>>)
       \o NamesWhere(Tail(tbl), Tail(found), want)

review_d3(content) ==
  LET found   == FoundIn(keywords, content)
      missing == NamesWhere(keywords, found, FALSE)
      passed  == Len(missing) = 0
  IN  [ passed            |-> passed,
        found_locations   |-> NamesWhere(keywords, found, TRUE),
        missing_locations |-> missing,
        comment           |-> IF passed THEN "Pass"
                              ELSE "Missing containment for: " \o Join(", ", missing) ]

\* a D4 evaluator that counts the systemic analysis among the required ones
review_d4_systemic_required(content) ==
  LET found   == FoundIn(checks, content)
      has_system_analysis == AnyKeyword(system_keywords, content)
      missing == NamesWhere(checks, found, FALSE)
                   \o (IF has_system_analysis THEN <<>> ELSE <<"Systemic">>)
      passed  == Len(missing) = 0
  IN  [ passed              |-> passed,
        found_analysis      |-> NamesWhere(checks, found, TRUE),
        missing_analysis    |-> missing,
        has_system_analysis |-> has_system_analysis,
        comment             |-> IF ~passed
                                THEN "Missing analysis for: " \o Join(", ", missing)
                                ELSE "Pass (Bonus: Systemic analysis included)" ]

review_d4(content) ==
  LET found   == FoundIn(checks, content)
      missing == NamesWhere(checks, found, FALSE)
      has_system_analysis == AnyKeyword(system_keywords, content)
      passed  == Len(missing) = 0
  IN  [ passed              |-> passed,
        found_analysis      |-> NamesWhere(checks, found, TRUE),
        missing_analysis    |-> missing,
        has_system_analysis |-> has_system_analysis,
        comment             |-> IF ~passed
                                THEN "Missing analysis for: " \o Join(", ", missing)
                                ELSE IF has_system_analysis
                                THEN "Pass (Bonus: Systemic analysis included)"
                                ELSE "Pass" ]

\* a D5 evaluator that does check its actions against the D4 text: without
\* a root cause in D4 there is nothing to align them with
review_d5_aligned(content, d4_content) ==
  LET has_measures == AnyKeyword(measure_keywords, content)
      has_owner    == AnyKeyword(owner_keywords, content)
      has_deadline == AnyKeyword(deadline_keywords, content)
      issues == (IF ~has_measures THEN <<"No specific actions described">> ELSE <<>>)
             \o (IF ~has_owner THEN <<"Missing owner">> ELSE <<>>)
             \o (IF ~has_deadline THEN <<"Missing deadline">> ELSE <<>>)
             \o (IF ~AnyKeyword(KW_D4_Root_Cause, d4_content)
                 THEN <<"No root cause to align with">> ELSE <<>>)
      passed == Len(issues) = 0
  IN  [ passed       |-> passed,
        has_measures |-> has_measures,
        has_owner    |-> has_owner,
        has_deadline |-> has_deadline,
        issues       |-> issues,
        comment      |-> IF passed THEN "Pass" ELSE "Issues: " \o Join("; ", issues) ]

review_d5(content, d4_content) ==
  LET has_measures == AnyKeyword(measure_keywords, content)
      has_owner    == AnyKeyword(owner_keywords, content)
      has_deadline == AnyKeyword(deadline_keywords, content)
      issues == (IF ~has_measures THEN <<"No specific actions described">> ELSE <<>>)
             \o (IF ~has_owner THEN <<"Missing owner">> ELSE <<>>)
             \o (IF ~has_deadline THEN <<"Missing deadline">> ELSE <<>>)
      passed == Len(issues) = 0
  IN  [ passed       |-> passed,
        has_measures |-> has_measures,
        has_owner    |-> has_owner,
        has_deadline |-> has_deadline,
        issues       |-> issues,
        comment      |-> IF passed THEN "Pass" ELSE "Issues: " \o Join("; ", issues) ]

\* re.search(r'\d+\.?\d*\s*[%％]', content): a match starts at a digit and
\* runs over digits, at most one ".", digits, whitespace, to a percent sign.
\* the first index from i on whose character is not in set, Len(s) + 1 if
\* none (i itself past the end)
SkipWhile(s, i, set) ==
  LET others == {j \in i..Len(s) : s[j] \notin set}
  IN  IF others # {} THEN CHOOSE j \in others : \A k \in others : j <= k
      ELSE IF i > Len(s) THEN i ELSE Len(s) + 1

\* the first index from i on whose character is in set, Len(s) + 1 if none
FindIn(s, i, set) ==
  LET hits == {j \in i..Len(s) : s[j] \in set}
  IN  IF hits # {} THEN CHOOSE j \in hits : \A k \in hits : j <= k
      ELSE IF i > Len(s) THEN i ELSE Len(s) + 1

\* a class that knows the ASCII percent sign only
PercentSigns_ascii == {"%"}

\* the character class [%％]
PercentSigns == {"%", "U+FF05"}

\* the pattern matches starting at index i (1-based): the quantifiers are
\* greedy and backtrack, so each run may stop at any point of its maximum.
PercentMatchAt(s, i) ==
  /\ i <= Len(s) /\ s[i] \in Digits
  /\ \E a \in (i + 1)..SkipWhile(s, i + 1, Digits) :          \* after \d+
       \E b \in {a} \cup (IF a <= Len(s) /\ s[a] = "." THEN {a + 1} ELSE {}) :  \* \.?
         \E c \in b..SkipWhile(s, b, Digits) :                \* \d*
           \E d \in c..SkipWhile(s, c, Whitespace) :         \* \s*
             d <= Len(s) /\ s[d] \in PercentSigns

PercentSearch(s) == \E i \in 1..Len(s) : PercentMatchAt(s, i)

\* a pass rule that asks for both kinds of verification
d6_passed_both(has_production, has_experiment, has_data) ==
  (has_production /\ has_experiment) /\ has_data

\* a pass rule that is content with data
d6_passed_data_only(has_production, has_experiment, has_data) == has_data

\* passed = (has_production or has_experiment) and has_data
d6_passed(has_production, has_experiment, has_data) ==
  (has_production \/ has_experiment) /\ has_data

review_d6(content) ==
  LET has_production == AnyKeyword(production_keywords, content)
      has_experiment == AnyKeyword(experiment_keywords, content)
      has_data == PercentSearch(content) \/ AnyKeyword(data_keywords, content)
      passed == d6_passed(has_production, has_experiment, has_data)
      issues == (IF ~(has_production \/ has_experiment)
                 THEN <<"Validation method not specified (Production or Experiment)">>
                 ELSE <<>>)
             \o (IF ~has_data THEN <<"No validation data provided">> ELSE <<>>)
  IN  [ passed                      |-> passed,
        has_production_verification |-> has_production,
        has_experiment_verification |-> has_experiment,
        has_data                    |-> has_data,
        issues                      |-> issues,
        comment |-> IF passed THEN "Pass" ELSE "Issues: " \o Join("; ", issues) ]

\* a pass rule that is content with either finding
d7_passed_either(has_doc_revision, has_training) == has_doc_revision \/ has_training

\* passed = has_doc_revision and has_training
d7_passed(has_doc_revision, has_training) == has_doc_revision /\ has_training

review_d7(content) ==
  LET has_doc_revision == AnyKeyword(doc_keywords, content)
      has_training     == AnyKeyword(training_keywords, content)
      passed == d7_passed(has_doc_revision, has_training)
      issues == (IF ~has_doc_revision THEN <<"Missing document revision">> ELSE <<>>)
             \o (IF ~has_training THEN <<"Missing training">> ELSE <<>>)
  IN  [ passed           |-> passed,
        has_doc_revision |-> has_doc_revision,
        has_training     |-> has_training,
        issues           |-> issues,
        comment |-> IF passed THEN "Pass" ELSE "Issues: " \o Join("; ", issues) ]

\* a D8 evaluator that fails a section without a summary
review_d8_strict(content) ==
  LET has_summary == AnyKeyword(summary_keywords, content)
  IN  [ passed      |-> has_summary,
        has_summary |-> has_summary,
        comment     |-> IF has_summary THEN "Pass"
                        ELSE "Suggestion: Add team recognition or lessons learned" ]

review_d8(content) ==
  LET has_summary == AnyKeyword(summary_keywords, content)
  IN  [ passed      |-> TRUE,
        has_summary |-> has_summary,
        comment     |-> IF has_summary THEN "Pass"
                        ELSE "Suggestion: Add team recognition or lessons learned" ]

----------------------------------------------------------------------------
(* extract_8d_sections: one regular expression per label, each searched    *)
(* in the whole text with re.DOTALL | re.IGNORECASE.                       *)

\* the dict the function starts from
EmptySections ==
  [l \in {"D1","D2","D3","D4","D5","D6","D7","D8"} |-> <<>>]

\* a patterns list whose last capture is stored under a key of its own
patterns_stray_key ==
  << [token |-> "1", stop |-> "2", section |-> "D1"],
     [token |-> "2", stop |-> "3", section |-> "D2"],
     [token |-> "3", stop |-> "4", section |-> "D3"],
     [token |-> "4", stop |-> "5", section |-> "D4"],
     [token |-> "5", stop |-> "6", section |-> "D5"],
     [token |-> "6", stop |-> "7", section |-> "D6"],
     [token |-> "7", stop |-> "8", section |-> "D7"],
     [token |-> "8", stop |-> "",  section |-> "D9"] >>

\* The patterns list: r'D<token>[\.、:：\s]*(.*?)(?=D<stop>[\.、:：\s]|$)' and
\* the key its capture is stored under; the last pattern stops at $ alone.
patterns ==
  << [token |-> "1", stop |-> "2", section |-> "D1"],
     [token |-> "2", stop |-> "3", section |-> "D2"],
     [token |-> "3", stop |-> "4", section |-> "D3"],
     [token |-> "4", stop |-> "5", section |-> "D4"],
     [token |-> "5", stop |-> "6", section |-> "D5"],
     [token |-> "6", stop |-> "7", section |-> "D6"],
     [token |-> "7", stop |-> "8", section |-> "D7"],
     [token |-> "8", stop |-> "",  section |-> "D8"] >>

\* the character class [\.、:：\s]
Delimiters == {".", "U+3001", ":", "U+FF1A"} \cup Whitespace

\* "D<digit>" matches at index p (1-based), ignoring case
LabelAt(t, p, digit) ==
  /\ p >= 1 /\ p + 1 <= Len(t)
  /\ LowerChar(t[p]) = "d"
  /\ t[p + 1] = digit

\* a lookahead that holds before every label, as a partition of the text
\* into sections would have it
StopAt_any_label(t, e, stop) ==
  \/ e = Len(t) + 1
  \/ e = Len(t) /\ t[e] = "\n"
  \/ /\ stop # ""
     /\ \E digit \in {"1", "2", "3", "4", "5", "6", "7", "8"} : LabelAt(t, e, digit)
     /\ e + 2 <= Len(t) /\ t[e + 2] \in Delimiters

\* the lookahead (?=D<stop>[\.、:：\s]|$) holds at index e: $ matches at the
\* end of the text and before a newline that ends it
StopAt(t, e, stop) ==
  \/ e = Len(t) + 1
  \/ e = Len(t) /\ t[e] = "\n"
  \/ /\ stop # ""
     /\ LabelAt(t, e, stop)
     /\ e + 2 <= Len(t) /\ t[e + 2] \in Delimiters

\* the last index at which the lookahead holds, as a greedy capture (.*)
\* would find it
FirstStop_last(t, e, stop) ==
  LET stops == {i \in e..(Len(t) + 1) : StopAt(t, i, stop)}
  IN  CHOOSE i \in stops : \A j \in stops : i >= j

\* the first index from e on at which the lookahead holds (the end of the
\* text at the latest)
FirstStop(t, e, stop) ==
  LET stops == {i \in e..(Len(t) + 1) : StopAt(t, i, stop)}
  IN  CHOOSE i \in stops : \A j \in stops : i <= j

\* the first index from p on at which the label matches, 0 if there is none
FirstLabel(t, p, digit) ==
  LET labels == {i \in p..(Len(t) - 1) : LabelAt(t, i, digit)}
  IN  IF labels = {} THEN 0 ELSE CHOOSE i \in labels : \A j \in labels : i <= j

\* a search whose label is optional: without the label the capture starts
\* at the head of the text
Search_optional_label(pat, doc_text) ==
  LET p == FirstLabel(doc_text, 1, pat.token)
      q == SkipWhile(doc_text, IF p = 0 THEN 1 ELSE p + 2, Delimiters)
      e == FirstStop(doc_text, q, pat.stop)
  IN  [matched |-> TRUE, group |-> SubSeq(doc_text, q, e - 1)]

\* re.search(pattern, doc_text, re.DOTALL | re.IGNORECASE): the leftmost
\* label, the longest run of delimiters after it, then the shortest capture
\* at whose end the lookahead holds.  group is match.group(1).
Search(pat, doc_text) ==
  LET p == FirstLabel(doc_text, 1, pat.token)
      q == SkipWhile(doc_text, p + 2, Delimiters)
      e == FirstStop(doc_text, q, pat.stop)
  IN  IF p = 0 THEN [matched |-> FALSE, group |-> <<>>]
      ELSE [matched |-> TRUE, group |-> SubSeq(doc_text, q, e - 1)]

\* sections[key] = value on a Python dict: the key is added when it is new
DictSet(d, key, value) ==
  [k \in DOMAIN d \cup {key} |-> IF k = key THEN value ELSE d[k]]

RECURSIVE ApplyPatterns(_, _, _)
ApplyPatterns(sections, pats, doc_text) ==
  IF pats = <<>> THEN sections
  ELSE LET match == Search(Head(pats), doc_text)
       IN  ApplyPatterns(
             IF match.matched
             THEN DictSet(sections, Head(pats).section, Strip(match.group))
             ELSE sections,
             Tail(pats), doc_text)

extract_8d_sections(doc_text) == ApplyPatterns(EmptySections, patterns, doc_text)

----------------------------------------------------------------------------
(* extract_evidence_snippet                                                *)

\* the sentinel "Not Found"
NotFound == <<"N","o","t"," ","F","o","u","n","d">>

\* the "..." appended to a truncated line
Ellipsis == <<".",".",".">>

\* text.splitlines(), up to empty lines: a line ends at every line break
\* ("\r\n" gives one more empty line here, and the caller drops empty lines)
RECURSIVE SplitLines(_)
SplitLines(text) ==
  LET n == FindIn(text, 1, LineBreaks)
  IN  IF text = <<>> THEN <<>>
      ELSE IF n > Len(text) THEN <<text>>
      ELSE <<SubSeq(text, 1, n - 1)>> \o SplitLines(SubSeq(text, n + 1, Len(text)))

\* re.sub(r"\s+", " ", s)
RECURSIVE CollapseSpace(_)
CollapseSpace(s) ==
  IF Len(s) <= 1
  THEN (IF s # <<>> /\ s[1] \in Whitespace THEN <<" ">> ELSE s)
  ELSE LET mid   == Len(s) \div 2
           left  == CollapseSpace(SubSeq(s, 1, mid))
           right == CollapseSpace(SubSeq(s, mid + 1, Len(s)))
       IN  \* a run of whitespace across the cut is one space
           IF left[Len(left)] = " " /\ right[1] = " "
           THEN left \o Tail(right) ELSE left \o right

\* [re.sub(r"\s+", " ", ln.strip()) for ln in text.splitlines() if ln.strip()]
RECURSIVE NormLines(_)
NormLines(lines) ==
  IF lines = <<>> THEN <<>>
  ELSE (IF Strip(Head(lines)) # <<>> THEN <<CollapseSpace(Strip(Head(lines)))>> ELSE <<>>)
       \o NormLines(Tail(lines))

raw_lines(text) == NormLines(SplitLines(text))

\* len(re.findall(r"\d", line)) == 0
NoDigit(line) == \A i \in 1..Len(line) : line[i] \notin Digits

\* the character class [A-Z0-9\s\-\(\)\[\]#:·•]
HeadingChars ==
  UpperSet \cup Digits \cup Whitespace
    \cup {"-", "(", ")", "[", "]", "#", ":", "U+00B7", "U+2022"}

is_heading_like(line) ==
  \/ Len(line) < 18
  \/ line # <<>> /\ \A i \in 1..Len(line) : line[i] \in HeadingChars
  \/ AnyKeyword(heading_markers, line) /\ NoDigit(line)
  \/ line # <<>> /\ line[Len(line)] = ":" /\ NoDigit(line)

\* candidates without the heading filter
candidates_unfiltered(lines) == lines

\* candidates = the lines that are not heading-like, or all lines if none
candidates(lines) ==
  LET c == SelectSeq(lines, LAMBDA ln : ~is_heading_like(ln))
  IN  IF c = <<>> THEN lines ELSE c

\* no preferred keywords: None and [] take the same branch
NoKeywords == <<>>

\* sum(1 for kw in preferred_keywords if kw and kw.lower() in line.lower())
RECURSIVE Hits(_, _)
Hits(kws, line) ==
  IF kws = <<>> THEN 0
  ELSE (IF Head(kws) # <<>> /\ Contains(Lower(Head(kws)), Lower(line)) THEN 1 ELSE 0)
       + Hits(Tail(kws), line)

Min(a, b) == IF a < b THEN a ELSE b

Max(a, b) == IF a > b THEN a ELSE b

\* a bonus that grows only from the fourth hit on
keyword_bonus_beyond_three(hits) ==
  IF hits > 0 THEN 5 + Max(0, Min(hits - 3, 3)) ELSE 0

\* the keyword part of score
keyword_bonus(hits) == IF hits > 0 THEN 5 + Min(hits, 3) ELSE 0

score(line, preferred_keywords) ==
    (IF preferred_keywords # <<>>
     THEN keyword_bonus(Hits(preferred_keywords, line)) ELSE 0)
  + (IF ~NoDigit(line) THEN 3 ELSE 0)
  + (IF AnyKeyword(unit_tokens, line) THEN 2 ELSE 0)
  + (IF AnyKeyword(verb_tokens, line) THEN 2 ELSE 0)
  + (IF Len(line) >= 40 THEN 1 ELSE 0)

\* the last element of the greatest key
RECURSIVE MaxBy_last(_, _, _)
MaxBy_last(best, rest, preferred_keywords) ==
  IF rest = <<>> THEN best
  ELSE MaxBy_last(IF score(Head(rest), preferred_keywords) >= score(best, preferred_keywords)
                  THEN Head(rest) ELSE best,
                  Tail(rest), preferred_keywords)

\* max(candidates, key=score): the first element of the greatest key
RECURSIVE MaxBy(_, _, _)
MaxBy(best, rest, preferred_keywords) ==
  IF rest = <<>> THEN best
  ELSE MaxBy(IF score(Head(rest), preferred_keywords) > score(best, preferred_keywords)
             THEN Head(rest) ELSE best,
             Tail(rest), preferred_keywords)

\* s[:n], n of either sign
SliceTo(s, n) == IF n >= 0 THEN Slice(s, 0, n) ELSE Slice(s, 0, Max(Len(s) + n, 0))

\* a cut at max_len with no ellipsis
truncate_cut(snippet, max_len) ==
  IF Len(snippet) > max_len THEN SliceTo(snippet, max_len) ELSE snippet

\* snippet[: max_len - 3].rstrip() + "..." when the line is too long
truncate(snippet, max_len) ==
  IF Len(snippet) > max_len
  THEN RStrip(SliceTo(snippet, max_len - 3)) \o Ellipsis
  ELSE snippet

extract_evidence_snippet(text, max_len, preferred_keywords) ==
  IF text = <<>> \/ Strip(text) = <<>> THEN NotFound
  ELSE LET lines == raw_lines(text)
       IN  IF lines = <<>> THEN NotFound
           ELSE LET c == candidates(lines)
                    snippet == MaxBy(Head(c), Tail(c), preferred_keywords)
                IN  IF snippet = <<>> \/ Strip(snippet) = <<>> THEN NotFound
                    ELSE truncate(snippet, max_len)

----------------------------------------------------------------------------
(* read_8d_report and review_8d_report.  A file is either unreadable or    *)
(* a .docx body: paragraphs [kind |-> "p", text] and tables                *)
(* [kind |-> "tbl", rows], rows a sequence of rows of cell texts.          *)

\* norm: re.sub(r"\s+", " ", (s or "").strip())
norm(s) == CollapseSpace(Strip(s))

\* sep.join(texts) for texts
RECURSIVE JoinText(_, _)
JoinText(sep, texts) ==
  IF texts = <<>> THEN <<>>
  ELSE IF Len(texts) = 1 THEN texts[1]
  ELSE texts[1] \o sep \o JoinText(sep, Tail(texts))

NonEmpty(texts) == SelectSeq(texts, LAMBDA t : t # <<>>)

\* the lines a table contributes: rows with a non-empty cell, cells joined
RECURSIVE RowParts(_)
RowParts(rows) ==
  IF rows = <<>> THEN <<>>
  ELSE LET cells == [i \in 1..Len(Head(rows)) |-> norm(Head(rows)[i])]
       IN  (IF NonEmpty(cells) = <<>> THEN <<>>
            ELSE <<JoinText(<<" ","|"," ">>, NonEmpty(cells))>>)
           \o RowParts(Tail(rows))

\* parts: the body's paragraphs and table rows, normalised, in order
RECURSIVE Parts(_)
Parts(body) ==
  IF body = <<>> THEN <<>>
  ELSE (IF Head(body).kind = "p"
        THEN (IF norm(Head(body).text) # <<>> THEN <<norm(Head(body).text)>> ELSE <<>>)
        ELSE RowParts(Head(body).rows))
       \o Parts(Tail(body))

\* a reader that takes a file it cannot open for an empty document
read_8d_report_empty(file) ==
  LET full_text == JoinText(<<"\n">>, Parts(file.body))
  IN  [ status          |-> "success",
        full_text       |-> full_text,
        sections        |-> extract_8d_sections(full_text),
        paragraph_count |-> Len(SelectSeq(file.body, LAMBDA el : el.kind = "p")) ]

read_8d_report(file) ==
  IF ~file.readable
  THEN [status |-> "error", message |-> "document cannot be opened"]
  ELSE LET full_text == JoinText(<<"\n">>, Parts(file.body))
       IN  [ status          |-> "success",
             full_text       |-> full_text,
             sections        |-> extract_8d_sections(full_text),
             paragraph_count |-> Len(SelectSeq(file.body, LAMBDA el : el.kind = "p")) ]

\* the reviews dict
ExecuteReviews(sections) ==
  [ D3 |-> review_d3(sections["D3"]),
    D4 |-> review_d4(sections["D4"]),
    D5 |-> review_d5(sections["D5"], sections["D4"]),
    D6 |-> review_d6(sections["D6"]),
    D7 |-> review_d7(sections["D7"]),
    D8 |-> review_d8(sections["D8"]) ]

\* the critical sections in another order
critical_sections_unordered == <<"D7", "D3", "D4", "D5", "D6">>

critical_sections == <<"D3", "D4", "D5", "D6", "D7">>

\* [s for s in critical_sections if not reviews[s]["passed"]]
failed_sections(reviews) ==
  SelectSeq(critical_sections, LAMBDA s : ~reviews[s].passed)

\* a verdict that tolerates one failed section
overall_passed_lenient(failed) == Len(failed) <= 1

\* overall_passed = len(failed_sections) == 0
overall_passed(failed) == Len(failed) = 0

\* the verdict of the reviews
Verdict(reviews) ==
  LET failed == failed_sections(reviews)
  IN  [ verdict         |-> IF overall_passed(failed)
                            THEN "8D Report APPROVED" ELSE "8D Report REJECTED",
        overall_passed  |-> overall_passed(failed),
        failed_sections |-> failed ]

review_8d_report(file, now) ==
  LET doc_result == read_8d_report(file)
  IN  IF doc_result.status = "error" THEN doc_result
      ELSE LET reviews == ExecuteReviews(doc_result.sections)
               v == Verdict(reviews)
           IN  [ status          |-> "success",
                 verdict         |-> v.verdict,
                 overall_passed  |-> v.overall_passed,
                 failed_sections |-> v.failed_sections,
                 reviews         |-> reviews,
                 review_date     |-> now ]

----------------------------------------------------------------------------
(* prepare_logic_audit_packet, generate_review_report and the parts of     *)
(* save_review_report.  The Markdown of a report is kept as the sequence   *)
(* of its blocks; an optional argument is a sequence of no element (None)  *)
(* or of one element.                                                      *)

\* the packet of a document that was read and reviewed
LogicAuditPacket(doc_result, gate_result) ==
  [ status          |-> "success",
    gate_result     |-> [ overall_passed  |-> gate_result.overall_passed,
                          failed_sections |-> gate_result.failed_sections,
                          reviews         |-> gate_result.reviews,
                          review_date     |-> gate_result.review_date ],
    source_sections |-> [k \in {"D3", "D4", "D5", "D6", "D7"} |-> doc_result.sections[k]],
    logic_audit_instructions |-> "Stage-2 LOGIC AUDIT (Risk Flags ONLY)" ]

\* doc_result and gate_result are computed once each; the reader's or the
\* review's result is returned as it is unless its status is "success"
prepare_logic_audit_packet(file, now) ==
  CHOOSE packet \in
    { IF doc_result.status # "success" THEN doc_result
      ELSE IF gate_result.status # "success" THEN gate_result
      ELSE LogicAuditPacket(doc_result, gate_result) :
        doc_result \in {read_8d_report(file)}, gate_result \in {review_8d_report(file, now)} } : TRUE

\* the report of a file: the line "**Error**: <message>" when the review
\* fails, otherwise header, summary, details and the closing line
ReviewReport(result, report_title) ==
  IF result.status = "error"
  THEN << [block |-> "**Error**", message |-> result.message] >>
  ELSE << [block |-> "header", title |-> report_title, date |-> result.review_date,
           approved |-> result.overall_passed],
          [block |-> "summary", verdict |-> result.verdict,
           failed_sections |-> result.failed_sections],
          [block |-> "details", reviews |-> result.reviews],
          [block |-> "*Generated by Q-Forge Quality Intelligence*"] >>

generate_review_report(file, report_title, now) ==
  CHOOSE report \in
    { ReviewReport(result, report_title) : result \in {review_8d_report(file, now)} } : TRUE

\* a test that takes a blank logic_review_md for an audit
has_logic_review_unstripped(logic_review_md) ==
  logic_review_md # <<>> /\ logic_review_md[1] # <<>>

\* logic_review_md and str(logic_review_md).strip()
has_logic_review(logic_review_md) ==
  logic_review_md # <<>> /\ logic_review_md[1] # <<>> /\ Strip(logic_review_md[1]) # <<>>

\* the report with the logic block put before the closing line, or at the
\* end when there is no closing line
append_logic_review(report, logic_review_md) ==
  LET logic_block == [block |-> "logic", text |-> Strip(logic_review_md[1])]
      rule   == [block |-> "---"]
      marker == {i \in 1..Len(report) :
                   report[i].block = "*Generated by Q-Forge Quality Intelligence*"}
  IN  IF marker # {}
      THEN LET at == CHOOSE i \in marker : \A j \in marker : i <= j
           IN  SubSeq(report, 1, at - 1) \o <<rule, logic_block>>
                 \o SubSeq(report, at, Len(report))
      ELSE report \o <<rule, logic_block>>

\* f"8D_Review_{timestamp}.md" with timestamp = now.strftime("%Y%m%d_%H%M%S")
report_filename(now) ==
  CASE now = "2026-01-01 09:00:00" -> "8D_Review_20260101_090000.md"
    [] now = "2026-01-01 09:00:01" -> "8D_Review_20260101_090001.md"

\* open(path, 'w') and write: the file at path has this content afterwards
WriteFile(fs, path, content) ==
  [p \in DOMAIN fs \cup {path} |-> IF p = path THEN content ELSE fs[p]]

----------------------------------------------------------------------------
(* The experience store: the file experience.json holds one JSON object,   *)
(* a dict from key to entry.                                               *)

EXPERIENCE_FILE == "knowledge/experience.json"

EmptyDict == [key \in {} |-> <<>>]

\* load_experience: {} without the file, else json.load, which raises on a
\* file that was opened for writing and not written yet
load_experience(fs) ==
  IF EXPERIENCE_FILE \notin DOMAIN fs THEN [raised |-> FALSE, value |-> EmptyDict]
  ELSE IF fs[EXPERIENCE_FILE].kind = "json"
       THEN [raised |-> FALSE, value |-> fs[EXPERIENCE_FILE].data]
       ELSE [raised |-> TRUE, value |-> "JSONDecodeError"]

----------------------------------------------------------------------------
(* Inputs.  A text is the concatenation of at most MaxFrags fragments.     *)

MaxFrags == 3

TextsOf(frags, n) ==
  UNION { { Flatten(f) : f \in [1..k -> frags] } : k \in 0..n }

\* WIP / 在途 / 客户现场 / 客户仓库 / Stock / 在制品、在途品
D3Frags ==
  { <<"W","I","P">>, <<"U+5728","U+9014">>, <<"U+5BA2","U+6237","U+73B0","U+573A">>, <<"U+5BA2","U+6237","U+4ED3","U+5E93">>, <<"S","t","o","c","k">>,
    <<"U+5728","U+5236","U+54C1","U+3001","U+5728","U+9014","U+54C1">> }

\* 机理 / Root Cause / 流出 / 制度 / 机理与流出
D4Frags ==
  { <<"U+673A","U+7406">>, <<"R","o","o","t"," ","C","a","u","s","e">>, <<"U+6D41","U+51FA">>, <<"U+5236","U+5EA6">>, <<"x"," ">>,
    <<"U+673A","U+7406","U+4E0E","U+6D41","U+51FA">> }

\* 措施 / Owner / 日期
D5Frags ==
  { <<"U+63AA","U+65BD">>, <<"O","w","n","e","r">>, <<"U+65E5","U+671F">>, <<"x"," ">> }

\* 量产 / Test / OK and the pieces of a percentage (% and the full-width ％) / paß
D6Frags ==
  { <<"U+91CF","U+4EA7">>, <<"T","e","s","t">>, <<"O","K">>, <<"9">>, <<".">>, <<"%">>, <<"U+FF05">>, <<" ">>,
    <<"p","a","U+00DF">> }

\* SOP / 培训 / update / traın (dotless i)
D7Frags ==
  { <<"S","O","P">>, <<"U+57F9","U+8BAD">>, <<"u","p","d","a","t","e">>, <<"x"," ">>,
    <<"t","r","a","U+0131","n">> }

\* 总结 / Team
D8Frags ==
  { <<"U+603B","U+7ED3">>, <<"T","e","a","m">>, <<"x"," ">> }

\* label tokens with and without a delimiter, in either case, and content
SegFrags ==
  { <<"D","1",":">>, <<"D","2"," ">>, <<"d","2">>, <<"D","3",".">>, <<"D","8","U+FF1A">>, <<"D","8">>, <<"a","b">>,
    <<" ">>, <<"\n">> }

\* Well-formed documents: an optional preamble, then the labels D1..D8 once
\* each and in order, written in one style (the letter, the delimiters after
\* the digit), each followed by its content.  One section has a content of
\* its own choice; the others hold a line that names them.
LabelStyles ==
  { [letter |-> "D", delimiters |-> <<":">>],
    [letter |-> "d", delimiters |-> <<" ">>],
    [letter |-> "D", delimiters |-> <<"U+3001", "\n">>],
    [letter |-> "D", delimiters |-> <<".", " ">>] }

Preambles == { <<>>, <<"8","D"," ","r","e","p","o","r","t","\n">> }

SectionContents ==
  { <<>>, <<" ">>, <<"a","\n","b"," ">>, <<".","5","%"," ">>, <<"x","D">> }

WellFormedDoc(style, preamble, varied, content) ==
  preamble \o
    Flatten([i \in 1..8 |->
               <<style.letter, patterns[i].token>> \o style.delimiters
                 \o (IF i = varied THEN content ELSE <<"t", patterns[i].token, "\n">>)])

WellFormedDocs ==
  { WellFormedDoc(style, preamble, varied, content) :
      style \in LabelStyles, preamble \in Preambles, varied \in 1..8, content \in SectionContents }

\* A section text for extract_evidence_snippet: at most MaxLines lines
MaxLines == 2

SnippetLines ==
  { <<"R","o","o","t"," ","C","a","u","s","e",":">>,
    <<"C","P","K"," ","i","m","p","r","o","v","e","d"," ","f","r","o","m"," ","0",".","8"," ","t","o"," ","1",".","5"," ","a","f","t","e","r"," ","f","i","x","t","u","r","e"," ","u","p","g","r","a","d","e">>,
    <<"N","o","t"," ","F","o","u","n","d">>,
    <<"I","N","T","E","R","I","M"," ","C","O","N","T","A","I","N","M","E","N","T"," ","A","C","T","I","O","N"," ","(","I","C","A",")">>,
    <<" "," ","a","l","l"," "," ","o","p","e","r","a","t","o","r","s"," ","w","e","r","e","\t","t","r","a","i","n","e","d"," ","a","g","a","i","n"," ">>,
    <<" "," "," ">>,
    <<"L","o","t"," ","7"," ","o","n"," ","h","o","l","d">> }

SnippetTexts ==
  UNION { { JoinText(<<"\n">>, f) : f \in [1..k -> SnippetLines] } : k \in 0..MaxLines }

\* max_len as the callers pass it (140, and the default 160) and small values
MaxLenChoices == {0, 2, 8, 9, 20, 140, 160}

KeywordChoices ==
  { NoKeywords, << <<"c","p","k">> >>,
    << <<"C","P","K">>, <<"f","i","x","t","u","r","e">>, <<"u","p","g","r","a","d","e">>, <<"i","m","p","r","o","v","e","d">> >>, << <<"r","o","o","t"," ","c","a","u","s","e">>, <<"h","o","l","d">>, <<>> >> }

\* The documents: D1 and D2 in a table, then one paragraph for every label
\* of D3..D8 that is present.  A critical section is written to pass, written
\* to fail, or absent; at most MaxAbsent of them are absent.
MaxAbsent == 1

CriticalLabels == {"D3", "D4", "D5", "D6", "D7"}

HeadTable ==
  [ kind |-> "tbl",
    rows |-> << << <<"D","1">>, <<" ","U+56E2","U+961F"," "," ","T","e","a","m"," ">> >>,
                << <<>>, <<" ">> >>,
                << <<"D","2">>, <<"U+95EE","U+9898","U+63CF","U+8FF0">>, <<>> >> >> ]

\* WIP、在途、客户现场、客户仓库已隔离 / 在制品已隔离，客户现场已通知
\* 机理、根因、流出原因 / 根本原因：参数漂移
\* 措施 责任人 日期 / 改善
\* 量产合格率100% / 已完成验证工作
\* 更新SOP并培训 / 培训
SectionText ==
  [ D3 |-> [pass |-> <<"D","3","."," ","W","I","P","U+3001","U+5728","U+9014","U+3001","U+5BA2","U+6237","U+73B0","U+573A","U+3001","U+5BA2","U+6237","U+4ED3","U+5E93","U+5DF2","U+9694","U+79BB">>,
            fail |-> <<"D","3","."," ","U+5728","U+5236","U+54C1","U+5DF2","U+9694","U+79BB","U+FF0C","U+5BA2","U+6237","U+73B0","U+573A","U+5DF2","U+901A","U+77E5">>],
    D4 |-> [pass |-> <<"D","4","U+FF1A","U+673A","U+7406","U+3001","U+6839","U+56E0","U+3001","U+6D41","U+51FA","U+539F","U+56E0">>,
            fail |-> <<"D","4","U+FF1A","U+6839","U+672C","U+539F","U+56E0","U+FF1A","U+53C2","U+6570","U+6F02","U+79FB">>],
    D5 |-> [pass |-> <<"D","5"," ","U+63AA","U+65BD"," ","U+8D23","U+4EFB","U+4EBA"," ","U+65E5","U+671F">>,
            fail |-> <<"D","5"," ","U+6539","U+5584">>],
    D6 |-> [pass |-> <<"D","6",":"," ","U+91CF","U+4EA7","U+5408","U+683C","U+7387","1","0","0","%">>,
            fail |-> <<"D","6",":"," ","U+5DF2","U+5B8C","U+6210","U+9A8C","U+8BC1","U+5DE5","U+4F5C">>],
    D7 |-> [pass |-> <<"d","7","U+3001","U+66F4","U+65B0","S","O","P","U+5E76","U+57F9","U+8BAD">>,
            fail |-> <<"d","7","U+3001","U+57F9","U+8BAD">>],
    D8 |-> [pass |-> <<"D","8"," ","U+611F","U+8C22","U+56E2","U+961F">>,
            fail |-> <<"D","8"," ","U+7ED3","U+6848">>] ]

DocChoices ==
  { c \in [CriticalLabels \cup {"D8"} -> {"pass", "fail", "absent"}] :
      Cardinality({l \in CriticalLabels : c[l] = "absent"}) <= MaxAbsent }

Paragraph(c, l) ==
  IF c[l] = "absent" THEN <<>>
  ELSE << [kind |-> "p", text |-> SectionText[l][c[l]]] >>

Body(c) ==
  <<HeadTable>> \o Paragraph(c, "D3") \o Paragraph(c, "D4") \o Paragraph(c, "D5")
    \o Paragraph(c, "D6") \o Paragraph(c, "D7") \o Paragraph(c, "D8")

Unreadable == [readable |-> FALSE, body |-> <<>>]

\* documents without any label: no content at all, and a paragraph that
\* would pass D6 and D7 under their labels (量产合格率100%，已更新SOP并培训)
Unlabelled ==
  { <<>>,
    << [kind |-> "p", text |-> <<"U+91CF","U+4EA7","U+5408","U+683C","U+7387","1","0","0","%","U+FF0C","U+5DF2","U+66F4","U+65B0","S","O","P","U+5E76","U+57F9","U+8BAD">>] >> }

Files ==
  {Unreadable}
    \cup { [readable |-> TRUE, body |-> Body(c)] : c \in DocChoices }
    \cup { [readable |-> TRUE, body |-> b] : b \in Unlabelled }

\* datetime.now() as the program formats it
Clock == {"2026-01-01 09:00:00", "2026-01-01 09:00:01"}

----------------------------------------------------------------------------
(* The state machine: the server is idle or has answered one call, which   *)
(* is recorded with its arguments and its return value.                    *)

NoCall == [fn |-> "none", args |-> <<>>]

NoReturn == [status |-> "none"]

\* The reviews the server may be running at the same time.  A thread is
\* idle, or runs review_8d_report(file) and stands before one of its
\* steps, or has returned; frames[p] holds the local variables of p's call.
Reviews == {"r1", "r2"}

IdleThread == [pc |-> "idle"]

\* a frame in which no local variable is bound yet
NoLocals == [name \in {} |-> <<>>]

\* the files the program writes, by path: at first there is none
NoFiles == [path \in {} |-> <<>>]

Init ==
  /\ call = NoCall
  /\ ret = NoReturn
  /\ threads = [p \in Reviews |-> IdleThread]
  /\ frames = [p \in Reviews |-> NoLocals]
  /\ files = NoFiles

CallReviewD3 ==
  /\ call = NoCall
  /\ \E content \in TextsOf(D3Frags, MaxFrags) :
       /\ call' = [fn |-> "review_d3", args |-> <<content>>]
       /\ ret' = review_d3(content)
       /\ UNCHANGED <<threads, frames, files>>

CallReviewD4 ==
  /\ call = NoCall
  /\ \E content \in TextsOf(D4Frags, MaxFrags) :
       /\ call' = [fn |-> "review_d4", args |-> <<content>>]
       /\ ret' = review_d4(content)
       /\ UNCHANGED <<threads, frames, files>>

CallReviewD5 ==
  /\ call = NoCall
  /\ \E content \in TextsOf(D5Frags, MaxFrags) :
       \E d4_content \in TextsOf(D4Frags, 1) :
         /\ call' = [fn |-> "review_d5", args |-> <<content, d4_content>>]
         /\ ret' = review_d5(content, d4_content)
         /\ UNCHANGED <<threads, frames, files>>

CallReviewD6 ==
  /\ call = NoCall
  /\ \E content \in TextsOf(D6Frags, MaxFrags) :
       /\ call' = [fn |-> "review_d6", args |-> <<content>>]
       /\ ret' = review_d6(content)
       /\ UNCHANGED <<threads, frames, files>>

CallReviewD7 ==
  /\ call = NoCall
  /\ \E content \in TextsOf(D7Frags, MaxFrags) :
       /\ call' = [fn |-> "review_d7", args |-> <<content>>]
       /\ ret' = review_d7(content)
       /\ UNCHANGED <<threads, frames, files>>

CallReviewD8 ==
  /\ call = NoCall
  /\ \E content \in TextsOf(D8Frags, MaxFrags) :
       /\ call' = [fn |-> "review_d8", args |-> <<content>>]
       /\ ret' = review_d8(content)
       /\ UNCHANGED <<threads, frames, files>>

CallExtractSections ==
  /\ call = NoCall
  /\ \E doc_text \in TextsOf(SegFrags, MaxFrags) :
       /\ call' = [fn |-> "extract_8d_sections", args |-> <<doc_text>>]
       /\ ret' = extract_8d_sections(doc_text)
       /\ UNCHANGED <<threads, frames, files>>

\* extract_8d_sections on a well-formed document
CallExtractWellFormed ==
  /\ call = NoCall
  /\ \E doc_text \in WellFormedDocs :
       /\ call' = [fn |-> "extract_8d_sections", args |-> <<doc_text>>]
       /\ ret' = extract_8d_sections(doc_text)
       /\ UNCHANGED <<threads, frames, files>>

CallExtractSnippet ==
  /\ call = NoCall
  /\ \E text \in SnippetTexts, max_len \in MaxLenChoices,
        preferred_keywords \in KeywordChoices :
       /\ call' = [fn |-> "extract_evidence_snippet",
                   args |-> <<text, max_len, preferred_keywords>>]
       /\ ret' = extract_evidence_snippet(text, max_len, preferred_keywords)
       /\ UNCHANGED <<threads, frames, files>>

ReviewCall(documents) ==
  /\ call = NoCall
  /\ \E file \in documents, now \in Clock :
       /\ call' = [fn |-> "review_8d_report", args |-> <<file>>]
       /\ ret' = review_8d_report(file, now)
       /\ UNCHANGED <<threads, frames, files>>

CallReview8dReport == ReviewCall(Files)

\* The reply is delivered and the server is idle again.
Return ==
  /\ call # NoCall
  /\ call' = NoCall
  /\ ret' = NoReturn
  /\ UNCHANGED <<threads, frames, files>>

----------------------------------------------------------------------------
(* review_8d_report step by step, for reviews that run at the same time:   *)
(* read and segment, evaluate, aggregate.  Every step reads and writes the *)
(* locals of its own call only.                                            *)

\* the documents of the concurrent reviews: every section passes / D4 fails
\* and D6 is absent / no label at all / the file cannot be opened
ConcFiles ==
  { Unreadable,
    [readable |-> TRUE,
     body |-> Body([l \in CriticalLabels \cup {"D8"} |-> "pass"])],
    [readable |-> TRUE,
     body |-> Body([l \in CriticalLabels \cup {"D8"} |->
                      IF l = "D4" THEN "fail" ELSE IF l = "D6" THEN "absent" ELSE "pass"])] }
    \cup { [readable |-> TRUE, body |-> b] : b \in Unlabelled \ {<<>>} }

\* the call review_8d_report(file) arrives on an idle thread
StartReview(p) ==
  /\ threads[p].pc = "idle"
  /\ \E file \in ConcFiles :
       threads' = [threads EXCEPT ![p] = [pc |-> "read", file |-> file]]
  /\ frames' = [frames EXCEPT ![p] = NoLocals]
  /\ UNCHANGED <<call, ret, files>>

\* a step that keeps sections in a variable of the module: every running
\* review sees the sections read last
ReadReport_global(p) ==
  /\ threads[p].pc = "read"
  /\ LET doc_result == read_8d_report(threads[p].file)
     IN  IF doc_result.status = "error"
         THEN /\ threads' = [threads EXCEPT ![p] =
                              [pc |-> "returned", file |-> threads[p].file, ret |-> doc_result]]
              /\ UNCHANGED frames
         ELSE /\ threads' = [threads EXCEPT ![p].pc = "evaluate"]
              /\ frames' = [q \in Reviews |->
                              DictSet(frames[q], "sections", doc_result.sections)]
  /\ UNCHANGED <<call, ret, files>>

\* doc_result = read_8d_report(file_path); an error is returned as it is,
\* otherwise sections = doc_result["sections"]
ReadReport(p) ==
  /\ threads[p].pc = "read"
  /\ LET doc_result == read_8d_report(threads[p].file)
     IN  IF doc_result.status = "error"
         THEN /\ threads' = [threads EXCEPT ![p] =
                              [pc |-> "returned", file |-> threads[p].file, ret |-> doc_result]]
              /\ UNCHANGED frames
         ELSE /\ threads' = [threads EXCEPT ![p].pc = "evaluate"]
              /\ frames' = [frames EXCEPT ![p] =
                              DictSet(frames[p], "sections", doc_result.sections)]
  /\ UNCHANGED <<call, ret, files>>

\* reviews = {"D3": review_d3(sections["D3"]), ...}
EvaluateSections(p) ==
  /\ threads[p].pc = "evaluate"
  /\ threads' = [threads EXCEPT ![p].pc = "aggregate"]
  /\ frames' = [frames EXCEPT ![p] =
                  DictSet(frames[p], "reviews", ExecuteReviews(frames[p]["sections"]))]
  /\ UNCHANGED <<call, ret, files>>

\* the result dict review_8d_report returns
ReviewResult(v, reviews, now) ==
  [ status          |-> "success",
    verdict         |-> v.verdict,
    overall_passed  |-> v.overall_passed,
    failed_sections |-> v.failed_sections,
    reviews         |-> reviews,
    review_date     |-> now ]

\* a step that keeps the critical sections in a set, whose iteration order
\* is one order in this run and another in that
Aggregate_unordered(p) ==
  /\ threads[p].pc = "aggregate"
  /\ \E now \in Clock, order \in {critical_sections, critical_sections_unordered} :
       LET reviews == frames[p]["reviews"]
           failed  == SelectSeq(order, LAMBDA s : ~reviews[s].passed)
           v == [ verdict         |-> IF overall_passed(failed)
                                      THEN "8D Report APPROVED" ELSE "8D Report REJECTED",
                  overall_passed  |-> overall_passed(failed),
                  failed_sections |-> failed ]
       IN  threads' = [threads EXCEPT ![p] =
                         [pc |-> "returned", file |-> threads[p].file,
                          ret |-> ReviewResult(v, reviews, now)]]
  /\ UNCHANGED <<call, ret, frames, files>>

\* failed_sections, overall_passed and the verdict text, then the return
Aggregate(p) ==
  /\ threads[p].pc = "aggregate"
  /\ \E now \in Clock :
       LET reviews == frames[p]["reviews"]
       IN  threads' = [threads EXCEPT ![p] =
                         [pc |-> "returned", file |-> threads[p].file,
                          ret |-> ReviewResult(Verdict(reviews), reviews, now)]]
  /\ UNCHANGED <<call, ret, frames, files>>

\* the reply is delivered and the thread is idle again
Deliver(p) ==
  /\ threads[p].pc = "returned"
  /\ threads' = [threads EXCEPT ![p] = IdleThread]
  /\ frames' = [frames EXCEPT ![p] = NoLocals]
  /\ UNCHANGED <<call, ret, files>>

NextConc ==
  \/ \E p \in Reviews : StartReview(p)
  \/ \E p \in Reviews : ReadReport(p)
  \/ \E p \in Reviews : EvaluateSections(p)
  \/ \E p \in Reviews : Aggregate(p)
  \/ \E p \in Reviews : Deliver(p)

SpecConc == Init /\ [][NextConc]_vars

----------------------------------------------------------------------------
(* The tools that read a document and may write a report file, called one  *)
(* after the other on the documents of SaveFiles.                          *)

\* the documents that are saved: one that cannot be opened and one whose
\* sections all pass
SaveFiles ==
  { Unreadable,
    [readable |-> TRUE, body |-> Body([l \in CriticalLabels \cup {"D8"} |-> "pass"])] }

\* logic_review_md: None, "", a blank text, an audit
LogicReviews ==
  { <<>>, << <<>> >>, << <<" ", "\n">> >>,
    << <<" ","R","i","s","k",":"," ","L","o","w","\n">> >> }

DefaultTitle == "8D Report Review"

\* the times that are not before a time
NotBefore(now) ==
  IF now = "2026-01-01 09:00:00" THEN Clock ELSE {"2026-01-01 09:00:01"}

CallReviewOfDocument == ReviewCall(SaveFiles)

CallPrepareLogicAuditPacket ==
  /\ call = NoCall
  /\ \E file \in SaveFiles, now \in Clock :
       /\ call' = [fn |-> "prepare_logic_audit_packet", args |-> <<file>>]
       /\ ret' = prepare_logic_audit_packet(file, now)
       /\ UNCHANGED <<threads, frames, files>>

\* save_review_report: without an audit, when one is required, the packet is
\* returned and nothing is written; otherwise the report is generated, the
\* audit is appended if there is one, and the file is written
CallSaveReviewReport ==
  /\ call = NoCall
  /\ \E file \in SaveFiles, now \in Clock :
       \E packet \in {prepare_logic_audit_packet(file, now)},
          report \in {generate_review_report(file, DefaultTitle, now)} :
           \E logic_review_md \in LogicReviews, require_logic_audit \in BOOLEAN,
              saved_at \in NotBefore(now) :
             /\ call' = [fn |-> "save_review_report",
                         args |-> <<file, DefaultTitle, logic_review_md, require_logic_audit>>]
             /\ IF require_logic_audit /\ ~has_logic_review(logic_review_md)
                THEN /\ ret' = IF packet.status # "success" THEN packet
                               ELSE [ status  |-> "needs_logic_audit",
                                      message |-> "Stage-2 Logic Audit is required.",
                                      logic_audit_packet |-> packet ]
                     /\ UNCHANGED files
                ELSE IF report[1].block = "**Error**"
                THEN /\ ret' = [status |-> "error", message |-> report]
                     /\ UNCHANGED files
                ELSE LET logic_included == has_logic_review(logic_review_md)
                         content == IF logic_included
                                    THEN append_logic_review(report, logic_review_md)
                                    ELSE report
                     IN  /\ files' = WriteFile(files, report_filename(saved_at),
                                               [kind |-> "markdown", blocks |-> content])
                         /\ ret' = [ status   |-> "success",
                                     message  |-> "Review report saved",
                                     filename |-> report_filename(saved_at),
                                     logic_review_included |-> logic_included,
                                     report_content |-> content ]
             /\ UNCHANGED <<threads, frames>>

NextSave ==
  \/ CallReviewOfDocument
  \/ CallPrepareLogicAuditPacket
  \/ CallSaveReviewReport
  \/ Return

SpecSave == Init /\ [][NextSave]_vars

----------------------------------------------------------------------------
(* save_experience step by step, for calls that run at the same time on    *)
(* the one file experience.json: load the store, set the key, open the     *)
(* file for writing, dump the store.                                       *)

ExperienceKeys == {"1214_8D_ProductA", "1215_8D_ProductB"}

Summaries == {"D4 rejected: no escape point", "approved"}

\* datetime.now().isoformat()
IsoClock == {"2026-01-01T09:00:00.000123"}

StartSave(p) ==
  /\ threads[p].pc = "idle"
  /\ \E key \in ExperienceKeys, summary \in Summaries :
       threads' = [threads EXCEPT ![p] =
                     [pc |-> "load", key |-> key, summary |-> summary, expert_note |-> <<>>]]
  /\ frames' = [frames EXCEPT ![p] = NoLocals]
  /\ UNCHANGED <<call, ret, files>>

\* experience = load_experience(); experience[key] = {...}
LoadExperience(p) ==
  /\ threads[p].pc = "load"
  /\ LET loaded == load_experience(files)
     IN  IF loaded.raised
         THEN /\ threads' = [threads EXCEPT ![p] =
                              [pc |-> "returned", key |-> threads[p].key,
                               summary |-> threads[p].summary,
                               ret |-> [status |-> "raised", message |-> loaded.value]]]
              /\ UNCHANGED frames
         ELSE \E now \in IsoClock :
                /\ threads' = [threads EXCEPT ![p].pc = "open"]
                /\ frames' = [frames EXCEPT ![p] =
                                DictSet(frames[p], "experience",
                                        DictSet(loaded.value, threads[p].key,
                                                [ summary     |-> threads[p].summary,
                                                  expert_note |-> threads[p].expert_note,
                                                  timestamp   |-> now ]))]
  /\ UNCHANGED <<call, ret, files>>

\* save_experience_data: open(EXPERIENCE_FILE, 'w') leaves the file empty
OpenExperienceFile(p) ==
  /\ threads[p].pc = "open"
  /\ files' = WriteFile(files, EXPERIENCE_FILE, [kind |-> "empty"])
  /\ threads' = [threads EXCEPT ![p].pc = "dump"]
  /\ UNCHANGED <<call, ret, frames>>

\* json.dump(data, f), then the return with total_experiences = len(experience)
DumpExperience(p) ==
  /\ threads[p].pc = "dump"
  /\ files' = WriteFile(files, EXPERIENCE_FILE,
                        [kind |-> "json", data |-> frames[p]["experience"]])
  /\ threads' = [threads EXCEPT ![p] =
                   [pc |-> "returned", key |-> threads[p].key,
                    summary |-> threads[p].summary,
                    ret |-> [ status |-> "success",
                              total_experiences |->
                                Cardinality(DOMAIN frames[p]["experience"]) ]]]
  /\ UNCHANGED <<call, ret, frames>>

NextExperience ==
  \/ \E p \in Reviews : StartSave(p)
  \/ \E p \in Reviews : LoadExperience(p)
  \/ \E p \in Reviews : OpenExperienceFile(p)
  \/ \E p \in Reviews : DumpExperience(p)
  \/ \E p \in Reviews : Deliver(p)

SpecExperience == Init /\ [][NextExperience]_vars

\* the rule evaluators
NextEval ==
  \/ CallReviewD3
  \/ CallReviewD4
  \/ CallReviewD5
  \/ CallReviewD6
  \/ CallReviewD7
  \/ CallReviewD8
  \/ Return

SpecEval == Init /\ [][NextEval]_vars

\* the section segmenter
NextSeg ==
  \/ CallExtractSections
  \/ CallExtractWellFormed
  \/ Return

SpecSeg == Init /\ [][NextSeg]_vars

\* the evidence snippet selector
NextSnippet ==
  \/ CallExtractSnippet
  \/ Return

SpecSnippet == Init /\ [][NextSnippet]_vars

\* the review tool
Next ==
  \/ CallReview8dReport
  \/ Return

Spec == Init /\ [][Next]_vars

----------------------------------------------------------------------------
(* Properties of the verdict (review_8d_report).                           *)

Reviewed == call.fn = "review_8d_report" /\ ret.status = "success"

\* the D8 section texts a document is changed to
D8Alternatives == TextsOf(D8Frags, 1)

\* C1: overall_passed is true iff the D3, D4, D5, D6 and D7 results are each
\* passed, and replacing only the D8 section text changes neither
\* overall_passed nor failed_sections.
C1_OverallPassedIffCriticalPassed ==
  Reviewed =>
    /\ ret.overall_passed
         = (\A s \in {"D3", "D4", "D5", "D6", "D7"} : ret.reviews[s].passed)
    /\ LET sections == read_8d_report(call.args[1]).sections
       IN  \A d8 \in D8Alternatives :
             LET other == Verdict(ExecuteReviews([sections EXCEPT !["D8"] = d8]))
             IN  /\ other.overall_passed = ret.overall_passed
                 /\ other.failed_sections = ret.failed_sections

\* an approved report whose D8 section has no summary
C1_Witness ==
  /\ Reviewed
  /\ ret.overall_passed
  /\ ~ret.reviews["D8"].has_summary
  /\ \E d8 \in D8Alternatives : review_d8(d8).has_summary

\* C2: failed_sections is exactly the labels among D3, D4, D5, D6, D7 whose
\* result is not passed, each once, in the order D3, D4, D5, D6, D7, and D8
\* is never in it.
C2_FailedSectionsExact ==
  Reviewed =>
    /\ ret.failed_sections
         = SelectSeq(<<"D3", "D4", "D5", "D6", "D7">>,
                     LAMBDA s : ~ret.reviews[s].passed)
    /\ \A i \in 1..Len(ret.failed_sections) : ret.failed_sections[i] # "D8"
    /\ \A i, j \in 1..Len(ret.failed_sections) :
         ret.failed_sections[i] = ret.failed_sections[j] => i = j

\* a rejected report that fails the first, the middle and the last critical section
C2_Witness ==
  /\ Reviewed
  /\ ret.failed_sections = <<"D3", "D5", "D7">>
  /\ ret.reviews["D4"].passed /\ ret.reviews["D6"].passed

----------------------------------------------------------------------------
(* Properties of the segmenter (extract_8d_sections).                      *)

Segmented == call.fn = "extract_8d_sections"

AllLabels == {"D1", "D2", "D3", "D4", "D5", "D6", "D7", "D8"}

CharsOf(t) == {t[i] : i \in 1..Len(t)}

\* C3: the result has exactly the keys D1..D8, and every value is a string
\* (possibly empty).
C3_SectionMapHasEightKeys ==
  Segmented =>
    /\ DOMAIN ret = AllLabels
    /\ \A l \in AllLabels : ret[l] \in Seq(CharsOf(call.args[1]))

\* a text with a D1 section and no D3 section
C3_Witness ==
  /\ Segmented
  /\ ret["D1"] # <<>>
  /\ ret["D3"] = <<>>

\* the label token "D<digit>" occurs in the text, in either case
TokenOccurs(digit, t) == Contains(<<"d", digit>>, Lower(t))

LabelDigits == <<"1", "2", "3", "4", "5", "6", "7", "8">>

\* C10: when the label token Li occurs nowhere in the text, section Li is the
\* empty string, and the function returns its map as usual.
C10_MissingLabelGivesEmptySection ==
  Segmented =>
    /\ DOMAIN ret = AllLabels
    /\ \A i \in 1..8 :
         ~TokenOccurs(LabelDigits[i], call.args[1]) => ret[patterns[i].section] = <<>>

\* a text with content and a D1 label but no D2 label
C10_Witness ==
  /\ Segmented
  /\ TokenOccurs("1", call.args[1]) /\ ret["D1"] # <<>>
  /\ ~TokenOccurs("2", call.args[1]) /\ ret["D2"] = <<>>

----------------------------------------------------------------------------
(* Properties of the evidence selector (extract_evidence_snippet).         *)

Selected == call.fn = "extract_evidence_snippet"

\* C4: the returned string is never longer than max_len.
C4_NeverLongerThanMaxLen ==
  Selected => Len(ret) <= call.args[2]

\* the text has a line that is not blank
HasNonBlankLine(text) == \E i \in 1..Len(text) : text[i] \notin Whitespace

\* C5: the result is the sentinel "Not Found" iff the text has no non-blank
\* line.
C5_NotFoundIffNoNonBlankLine ==
  Selected => ((ret = NotFound) <=> ~HasNonBlankLine(call.args[1]))

----------------------------------------------------------------------------
(* Properties of the rule evaluators.                                      *)

Range(s) == {s[i] : i \in 1..Len(s)}

NoRepeat(s) == Cardinality(Range(s)) = Len(s)

\* the five locations of D3 and the keyword list of each
D3Locations ==
  [ l \in {"WIP", "In-transit", "Customer Site", "Customer Stock", "Internal Stock"} |->
      CASE l = "WIP"            -> KW_D3_WIP
        [] l = "In-transit"     -> KW_D3_In_transit
        [] l = "Customer Site"  -> KW_D3_Customer_Site
        [] l = "Customer Stock" -> KW_D3_Customer_Stock
        [] l = "Internal Stock" -> KW_D3_Internal_Stock ]

\* some keyword of the list is a substring of the text, ignoring case
FoundByKeyword(kws, text) ==
  LET lowered == Lower(text)
  IN  \E i \in 1..Len(kws) :
        LET kw == Lower(kws[i])
        IN  \E at \in 0..Len(text) : OccursAt(kw, lowered, at)

\* C6: review_d3 passes iff all five locations are found by keyword match;
\* found_locations and missing_locations are disjoint, together are the five
\* locations, and missing_locations is the locations not found.
C6_D3PassesIffAllFiveFound ==
  call.fn = "review_d3" =>
    LET content == call.args[1]
        found   == {l \in DOMAIN D3Locations : FoundByKeyword(D3Locations[l], content)}
    IN  /\ ret.passed = (found = DOMAIN D3Locations)
        /\ Range(ret.found_locations) = found
        /\ Range(ret.missing_locations) = DOMAIN D3Locations \ found
        /\ Range(ret.found_locations) \cap Range(ret.missing_locations) = {}
        /\ Range(ret.found_locations) \cup Range(ret.missing_locations) = DOMAIN D3Locations
        /\ NoRepeat(ret.found_locations) /\ NoRepeat(ret.missing_locations)

\* a D3 text that covers the five locations
C6_Witness ==
  /\ call.fn = "review_d3"
  /\ ret.passed
  /\ Len(ret.found_locations) = 5

\* C7: review_d6 passes iff (has_production_verification or
\* has_experiment_verification) and has_data.
C7_D6PassRule ==
  call.fn = "review_d6" =>
    ret.passed = ( /\ ret.has_production_verification \/ ret.has_experiment_verification
                   /\ ret.has_data )

\* a D6 text verified by experiment alone, with data
C7_Witness ==
  /\ call.fn = "review_d6"
  /\ ~ret.has_production_verification
  /\ ret.has_experiment_verification
  /\ ret.has_data
  /\ ret.passed

C9_D8AlwaysPasses ==
  call.fn = "review_d8" =>
    /\ ret.passed = TRUE
    /\ DOMAIN ret = {"passed", "has_summary", "comment"}
    /\ ret.has_summary = FoundByKeyword(summary_keywords, call.args[1])
    /\ ret.comment = IF ret.has_summary THEN "Pass"
                     ELSE "Suggestion: Add team recognition or lessons learned"

\* a D8 text without a summary keyword, which passes with the suggestion
C9_Witness ==
  /\ call.fn = "review_d8"
  /\ call.args[1] # <<>>
  /\ ~ret.has_summary
  /\ ret.passed

----------------------------------------------------------------------------
(* Empty sections.                                                         *)

\* the text the document is flattened to
FullText(file) == read_8d_report(file).full_text

\* C11: on the empty section text every evaluator returns an ordinary result;
\* D3, D4, D5, D6 and D7 return passed = false with every required category
\* reported missing (5 locations, 3 analyses, 3 issues, 2 issues, 2 issues),
\* and a document without any label has failed_sections = [D3, D4, D5, D6, D7].
C11_EmptySectionFailsEveryCategory ==
  Reviewed =>
    LET sections == read_8d_report(call.args[1]).sections
        r == ret.reviews
    IN  /\ \A s \in DOMAIN r : "passed" \in DOMAIN r[s] /\ "comment" \in DOMAIN r[s]
        /\ sections["D3"] = <<>> =>
             /\ r["D3"].passed = FALSE
             /\ r["D3"].found_locations = <<>>
             /\ r["D3"].missing_locations
                  = <<"WIP", "In-transit", "Customer Site", "Customer Stock", "Internal Stock">>
        /\ sections["D4"] = <<>> =>
             /\ r["D4"].passed = FALSE
             /\ r["D4"].found_analysis = <<>>
             /\ r["D4"].missing_analysis = <<"Mechanism", "Root Cause", "Escape Point">>
        /\ sections["D5"] = <<>> =>
             /\ r["D5"].passed = FALSE
             /\ r["D5"].issues
                  = <<"No specific actions described", "Missing owner", "Missing deadline">>
        /\ sections["D6"] = <<>> =>
             /\ r["D6"].passed = FALSE
             /\ r["D6"].issues
                  = <<"Validation method not specified (Production or Experiment)",
                      "No validation data provided">>
        /\ sections["D7"] = <<>> =>
             /\ r["D7"].passed = FALSE
             /\ r["D7"].issues = <<"Missing document revision", "Missing training">>
        /\ sections["D8"] = <<>> => r["D8"].passed = TRUE /\ r["D8"].has_summary = FALSE
        /\ (\A i \in 1..8 : ~TokenOccurs(LabelDigits[i], FullText(call.args[1])))
             => ret.failed_sections = <<"D3", "D4", "D5", "D6", "D7">>

\* a document with content and no label: all five critical sections fail
C11_Witness ==
  /\ Reviewed
  /\ FullText(call.args[1]) # <<>>
  /\ \A i \in 1..8 : ~TokenOccurs(LabelDigits[i], FullText(call.args[1]))
  /\ \A s \in {"D3", "D4", "D5", "D6", "D7", "D8"} :
       read_8d_report(call.args[1]).sections[s] = <<>>
  /\ ret.failed_sections = <<"D3", "D4", "D5", "D6", "D7">>

----------------------------------------------------------------------------
(* Reviews that run more than once, and at the same time.                  *)

\* the locals a running review has bound
Bound(p, name) == name \in DOMAIN frames[p]

\* the review has returned a verdict
Succeeded(p) == threads[p].pc = "returned" /\ threads[p].ret.status = "success"

\* the section texts an evaluator reads: its own section, and D4 for D5
ReadBy == [s \in {"D3", "D4", "D5", "D6", "D7", "D8"} |->
             IF s = "D5" THEN {"D5", "D4"} ELSE {s}]

C13_ConcurrentReviewsAsAlone ==
  \A p \in Reviews :
    LET t == threads[p]
    IN  /\ t.pc \in {"evaluate", "aggregate"} =>
             frames[p]["sections"] = read_8d_report(t.file).sections
        /\ t.pc = "aggregate" =>
             frames[p]["reviews"] = ExecuteReviews(read_8d_report(t.file).sections)
        /\ t.pc = "returned" =>
             \E now \in Clock : t.ret = review_8d_report(t.file, now)

\* two reviews of different documents, both between evaluation and
\* aggregation, one approving and one rejecting
C13_Witness ==
  /\ threads["r1"].pc = "aggregate" /\ threads["r2"].pc = "aggregate"
  /\ threads["r1"].file # threads["r2"].file
  /\ \A s \in {"D3", "D4", "D5", "D6", "D7"} : frames["r1"]["reviews"][s].passed
  /\ ~frames["r2"]["reviews"]["D4"].passed

----------------------------------------------------------------------------
(* Where a section ends.                                                   *)

\* the index of the first token "D<digit>" of the text in either case, 0 if none
FirstToken(digit, t) ==
  LET at == {i \in 1..(Len(t) - 1) : LowerChar(t[i]) = "d" /\ t[i + 1] = digit}
  IN  IF at = {} THEN 0 ELSE CHOOSE i \in at : \A j \in at : i <= j

\* the text after the token at index p
AfterToken(t, p) == SubSeq(t, p + 2, Len(t))

\* C14: for i in 1..7, whenever the token L(i+1) occurs in the text after the
\* first token Li, section Li ends before it and contains no occurrence of
\* the token L(i+1).
C14_SectionEndsAtNextLabel ==
  Segmented =>
    \A i \in 1..7 :
      LET t    == call.args[1]
          p    == FirstToken(LabelDigits[i], t)
          next == FirstToken(LabelDigits[i + 1], AfterToken(t, p))
      IN  (p # 0 /\ next # 0) =>
            /\ Len(ret[patterns[i].section]) <= next - 1
            /\ ~TokenOccurs(LabelDigits[i + 1], ret[patterns[i].section])

\* s without its longest prefix of characters of set
DropLeading(s, set) ==
  LET n == CHOOSE k \in 0..Len(s) :
             /\ \A j \in 1..k : s[j] \in set
             /\ k = Len(s) \/ s[k + 1] \notin set
  IN  SubSeq(s, n + 1, Len(s))

\* s without its longest suffix of characters of set
DropTrailing(s, set) ==
  LET n == CHOOSE k \in 0..Len(s) :
             /\ \A j \in (k + 1)..Len(s) : s[j] \in set
             /\ k = 0 \/ s[k] \notin set
  IN  SubSeq(s, 1, n)

\* the text that follows a label: the punctuation and whitespace after the
\* token dropped, and the whitespace at both ends
Remainder(t, p) ==
  DropTrailing(DropLeading(AfterToken(t, p), Delimiters), Whitespace)

\* C15: if the token Li (i in 1..7) occurs and the token L(i+1) does not occur
\* after it, section Li is all the text from after the first token Li to the
\* end of the input; it contains the section of every later label that follows
\* it, and those sections are still extracted, with the same text.
C15_MissingNextLabelOverruns ==
  Segmented =>
    \A i \in 1..7 :
      LET t == call.args[1]
          p == FirstToken(LabelDigits[i], t)
      IN  (p # 0 /\ FirstToken(LabelDigits[i + 1], AfterToken(t, p)) = 0) =>
            /\ ret[patterns[i].section] = Remainder(t, p)
            /\ \A j \in (i + 2)..8 :
                 FirstToken(LabelDigits[j], t) > p =>
                   /\ Contains(ret[patterns[j].section], ret[patterns[i].section])
                   /\ Len(ret[patterns[j].section]) < Len(ret[patterns[i].section])

\* a text with D1 and D3 and no D2: D1 runs over the D3 label and its text,
\* and D3 has its text too
C15_Witness ==
  /\ Segmented
  /\ FirstToken("1", call.args[1]) # 0
  /\ ~TokenOccurs("2", call.args[1])
  /\ FirstToken("3", call.args[1]) > FirstToken("1", call.args[1])
  /\ ret["D3"] # <<>>
  /\ TokenOccurs("3", ret["D1"])
  /\ Contains(ret["D3"], ret["D1"])

----------------------------------------------------------------------------
(* What a result depends on.                                               *)

\* the D4 section texts a D5 review is repeated with
D4Alternatives == TextsOf(D4Frags, 1)

----------------------------------------------------------------------------
(* The comment of a result.                                                *)

D3Order == <<"WIP", "In-transit", "Customer Site", "Customer Stock", "Internal Stock">>

\* the three analyses of D4 and the keyword list of each
D4Analyses ==
  [ a \in {"Mechanism", "Root Cause", "Escape Point"} |->
      CASE a = "Mechanism"    -> KW_D4_Mechanism
        [] a = "Root Cause"   -> KW_D4_Root_Cause
        [] a = "Escape Point" -> KW_D4_Escape_Point ]

D4Order == <<"Mechanism", "Root Cause", "Escape Point">>

\* the categories of D5 and D7, and how the result names a missing one
D5Categories ==
  << [kws |-> measure_keywords,  message |-> "No specific actions described"],
     [kws |-> owner_keywords,    message |-> "Missing owner"],
     [kws |-> deadline_keywords, message |-> "Missing deadline"] >>

D7Categories ==
  << [kws |-> doc_keywords,      message |-> "Missing document revision"],
     [kws |-> training_keywords, message |-> "Missing training"] >>

\* the names of the categories of the table that the text does not have
MissingNames(order, table, text) ==
  SelectSeq(order, LAMBDA l : ~FoundByKeyword(table[l], text))

MissingMessages(categories, text) ==
  LET missing == SelectSeq(categories, LAMBDA c : ~FoundByKeyword(c.kws, text))
  IN  [i \in 1..Len(missing) |-> missing[i].message]

\* the names one after the other with sep between them
RECURSIVE Listed(_, _)
Listed(names, sep) ==
  IF names = <<>> THEN ""
  ELSE IF Len(names) = 1 THEN names[1]
  ELSE Listed(SubSeq(names, 1, Len(names) - 1), sep) \o sep \o names[Len(names)]

\* "Pass" (or what stands for it) with nothing missing, the list otherwise
CommentFor(missing, pass, header, sep) ==
  IF missing = <<>> THEN pass ELSE header \o Listed(missing, sep)

BonusPass == "Pass (Bonus: Systemic analysis included)"

\* C17 as the specification states it: for D3, D4, D5 and D7 the comment is
\* exactly "Pass" whenever no required category is missing, and otherwise a
\* formatted list naming exactly the missing categories.
C17_CommentPassOrMissingList ==
  /\ call.fn = "review_d3" =>
       ret.comment = CommentFor(MissingNames(D3Order, D3Locations, call.args[1]),
                                "Pass", "Missing containment for: ", ", ")
  /\ call.fn = "review_d4" =>
       ret.comment = CommentFor(MissingNames(D4Order, D4Analyses, call.args[1]),
                                "Pass", "Missing analysis for: ", ", ")
  /\ call.fn = "review_d5" =>
       ret.comment = CommentFor(MissingMessages(D5Categories, call.args[1]),
                                "Pass", "Issues: ", "; ")
  /\ call.fn = "review_d7" =>
       ret.comment = CommentFor(MissingMessages(D7Categories, call.args[1]),
                                "Pass", "Issues: ", "; ")

\* C17, amended: as above for D3, D5 and D7; for D4 the comment with nothing
\* missing is "Pass" when the text has no systemic keyword and
\* "Pass (Bonus: Systemic analysis included)" when it has one.
C17_CommentPassBonusOrMissingList ==
  /\ call.fn = "review_d3" =>
       ret.comment = CommentFor(MissingNames(D3Order, D3Locations, call.args[1]),
                                "Pass", "Missing containment for: ", ", ")
  /\ call.fn = "review_d4" =>
       ret.comment = CommentFor(MissingNames(D4Order, D4Analyses, call.args[1]),
                                IF FoundByKeyword(system_keywords, call.args[1])
                                THEN BonusPass ELSE "Pass",
                                "Missing analysis for: ", ", ")
  /\ call.fn = "review_d5" =>
       ret.comment = CommentFor(MissingMessages(D5Categories, call.args[1]),
                                "Pass", "Issues: ", "; ")
  /\ call.fn = "review_d7" =>
       ret.comment = CommentFor(MissingMessages(D7Categories, call.args[1]),
                                "Pass", "Issues: ", "; ")

\* a D4 text with the three analyses and a systemic keyword: it passes, and
\* its comment is not "Pass"
C17_Witness ==
  /\ call.fn = "review_d4"
  /\ ret.passed
  /\ ret.missing_analysis = <<>>
  /\ ret.has_system_analysis
  /\ ret.comment = BonusPass

----------------------------------------------------------------------------
(* The systemic-analysis flag of D4.                                       *)

\* the results of the D4 texts a review is compared with
D4Others == { review_d4(other) : other \in TextsOf(D4Frags, 2) }

\* C18: in review_d4 the systemic-analysis flag never affects pass/fail: two
\* texts that find the same set of required categories and differ in
\* has_system_analysis have equal passed and equal missing_analysis.
C18_SystemicFlagNeverAffectsPass ==
  call.fn = "review_d4" =>
    \A r \in D4Others :
      ( /\ Range(r.found_analysis) = Range(ret.found_analysis)
        /\ r.has_system_analysis # ret.has_system_analysis )
        => /\ r.passed = ret.passed
           /\ r.missing_analysis = ret.missing_analysis

\* a passing D4 text with a systemic keyword, and another passing text
\* without one
C18_Witness ==
  /\ call.fn = "review_d4"
  /\ ret.passed /\ ret.has_system_analysis
  /\ \E r \in D4Others :
       /\ ~r.has_system_analysis
       /\ Range(r.found_analysis) = Range(ret.found_analysis)

----------------------------------------------------------------------------
(* The issues and the data of D6.                                          *)

MethodIssue == "Validation method not specified (Production or Experiment)"

DataIssue == "No validation data provided"

\* C19: in review_d6 the issues list contains the missing-verification-type
\* message iff neither has_production_verification nor
\* has_experiment_verification holds, contains "No validation data provided"
\* iff has_data is false, contains nothing else, and is empty iff passed.
C19_D6IssuesExact ==
  call.fn = "review_d6" =>
    /\ (MethodIssue \in Range(ret.issues))
         <=> ~(ret.has_production_verification \/ ret.has_experiment_verification)
    /\ (DataIssue \in Range(ret.issues)) <=> ~ret.has_data
    /\ Range(ret.issues) \subseteq {MethodIssue, DataIssue}
    /\ NoRepeat(ret.issues)
    /\ (ret.issues = <<>>) <=> ret.passed

\* a D6 text with data and no kind of verification: one issue, not passed
C19_Witness ==
  /\ call.fn = "review_d6"
  /\ ret.has_data
  /\ ~ret.has_production_verification /\ ~ret.has_experiment_verification
  /\ ret.issues = <<MethodIssue>>
  /\ ~ret.passed

\* a percent sign, ASCII or full-width
IsPercent(c) == c = "%" \/ c = "U+FF05"

\* the text has a number (digits, with or without a decimal point) that a
\* percent sign follows, immediately or after whitespace: before the sign
\* and the whitespace before it stands a digit, or a "." after a digit
NumberThenPercent(text) ==
  \E k \in 1..Len(text) :
    /\ IsPercent(text[k])
    /\ \E j \in 1..(k - 1) :
         /\ \A w \in (j + 1)..(k - 1) : text[w] \in Whitespace
         /\ \/ text[j] \in Digits
            \/ text[j] = "." /\ j >= 2 /\ text[j - 1] \in Digits

\* C20: in review_d6 has_data is true iff the text contains a number
\* followed, immediately or after whitespace, by a percent sign, or contains
\* one of the pass/accepted-style keywords; a text with neither has
\* has_data = false, passed = false and the issue "No validation data provided".
C20_HasDataIffPercentOrKeyword ==
  call.fn = "review_d6" =>
    LET data == \/ NumberThenPercent(call.args[1])
                \/ FoundByKeyword(data_keywords, call.args[1])
    IN  /\ ret.has_data = data
        /\ ~data => /\ ret.has_data = FALSE
                    /\ ret.passed = FALSE
                    /\ DataIssue \in Range(ret.issues)

\* a D6 text whose only data is a number before a full-width percent sign
C20_Witness ==
  /\ call.fn = "review_d6"
  /\ ret.has_data
  /\ ~FoundByKeyword(data_keywords, call.args[1])
  /\ \E k \in 1..Len(call.args[1]) : call.args[1][k] = "U+FF05"
  /\ \A k \in 1..Len(call.args[1]) : call.args[1][k] # "%"

----------------------------------------------------------------------------
(* Selection, scoring and truncation in extract_evidence_snippet.          *)

\* the whitespace-normalized non-blank lines of the text of the call
LinesOf == [text \in SnippetTexts |-> raw_lines(text)]

SnippetLinesOfCall == LinesOf[call.args[1]]

\* the normalized lines that the texts are made of, and the score of each
\* under each choice of preferred keywords
KnownLines == UNION { Range(raw_lines(l)) : l \in SnippetLines }

ScoreOf == [l \in KnownLines |-> [kws \in KeywordChoices |-> score(l, kws)]]

\* heading-like: shorter than 18 characters, or only uppercase letters,
\* digits, spaces and the fixed punctuation, or a heading phrase and no digit,
\* or a final colon and no digit
HeadingLike(line) ==
  \/ Len(line) < 18
  \/ Range(line) \subseteq HeadingChars
  \/ FoundByKeyword(heading_markers, line) /\ Range(line) \cap Digits = {}
  \/ line[Len(line)] = ":" /\ Range(line) \cap Digits = {}

\* C21: when some line of the section is not heading-like, the line selected
\* is not heading-like, even if a heading-like line scores higher; only when
\* every line is heading-like is the selection made over all lines.
C21_BodyLineBeforeHeading ==
  Selected /\ SnippetLinesOfCall # <<>> =>
    LET all  == Range(SnippetLinesOfCall)
        body == {l \in all : ~HeadingLike(l)}
        pool == IF body = {} THEN all ELSE body
    IN  \E l \in pool : ret = truncate(l, call.args[2])

\* a heading-like line scores higher than the body line that is returned
C21_Witness ==
  /\ Selected
  /\ ret \in Range(SnippetLinesOfCall)
  /\ ~HeadingLike(ret)
  /\ \E h \in Range(SnippetLinesOfCall) :
       HeadingLike(h) /\ ScoreOf[h][call.args[3]] > ScoreOf[ret][call.args[3]]

\* the first of the candidates of the call whose score is the greatest
FirstOfGreatest(c, kws) ==
  LET sc == [j \in 1..Len(c) |-> ScoreOf[c[j]][kws]]
      k  == CHOOSE k \in 1..Len(c) :
              /\ \A j \in 1..Len(c) : sc[j] <= sc[k]
              /\ \A j \in 1..(k - 1) : sc[j] < sc[k]
  IN  c[k]

SelectedLine ==
  CHOOSE l \in { FirstOfGreatest(c, call.args[3]) : c \in {candidates(SnippetLinesOfCall)} } : TRUE

\* C22: the line selected has the greatest score among the candidates, and
\* of several candidates with the greatest score it is the first in the text.
C22_FirstOfGreatestScore ==
  Selected =>
    \A lines \in {SnippetLinesOfCall} :
      lines # <<>> => ret = truncate(SelectedLine, call.args[2])

\* two different candidates share the greatest score and the first is returned
C22_Witness ==
  /\ Selected
  /\ SnippetLinesOfCall # <<>>
  /\ LET c == candidates(SnippetLinesOfCall)
     IN  /\ Len(c) = 2
         /\ c[1] # c[2]
         /\ ScoreOf[c[1]][call.args[3]] = ScoreOf[c[2]][call.args[3]]
         /\ ret = c[1]

\* the number of non-empty preferred keywords that occur in the line
KeywordHits(kws, line) ==
  Cardinality({i \in 1..Len(kws) : kws[i] # <<>> /\ FoundByKeyword(<<kws[i]>>, line)})

HitsOf == [l \in KnownLines |-> [kws \in KeywordChoices |-> KeywordHits(kws, l)]]

\* what the preferred keywords add to the score of a line
BonusGiven(line, kws) == ScoreOf[line][kws] - ScoreOf[line][NoKeywords]

\* C23 as stated: a line with a keyword hit gets 5, plus one point for each
\* hit beyond the first three, at most 3 (1 to 3 hits +5, 4 hits +6, 5 hits
\* +7, 6 or more +8); no hit or no keywords, no bonus.
C23_BonusForHitsBeyondThree ==
  Selected =>
    \A i \in 1..Len(SnippetLinesOfCall) :
      LET hits == HitsOf[SnippetLinesOfCall[i]][call.args[3]]
      IN  BonusGiven(SnippetLinesOfCall[i], call.args[3])
            = IF hits = 0 THEN 0
              ELSE IF hits <= 3 THEN 5
              ELSE IF hits <= 5 THEN hits + 2
              ELSE 8

\* C23 amended: a line with a keyword hit gets 5 plus one point for each hit,
\* at most 3 (1 hit +6, 2 hits +7, 3 or more hits +8); no hit or no keywords,
\* no bonus.
C23_BonusForEveryHit ==
  Selected =>
    \A i \in 1..Len(SnippetLinesOfCall) :
      LET hits == HitsOf[SnippetLinesOfCall[i]][call.args[3]]
      IN  BonusGiven(SnippetLinesOfCall[i], call.args[3])
            = IF hits = 0 THEN 0
              ELSE IF hits = 1 THEN 6
              ELSE IF hits = 2 THEN 7
              ELSE 8

\* a line with four keyword hits is scored against a line with none
C23_Witness ==
  /\ Selected
  /\ \E i, j \in 1..Len(SnippetLinesOfCall) :
       /\ HitsOf[SnippetLinesOfCall[i]][call.args[3]] = 4
       /\ HitsOf[SnippetLinesOfCall[j]][call.args[3]] = 0
       /\ ret = SnippetLinesOfCall[i]

\* r is a prefix of the line followed by "..."
PrefixThenEllipsis(r, line) ==
  /\ Len(r) >= Len(Ellipsis)
  /\ Len(r) - Len(Ellipsis) <= Len(line)
  /\ \A i \in 1..(Len(r) - Len(Ellipsis)) : r[i] = line[i]
  /\ \A i \in 1..Len(Ellipsis) : r[Len(r) - Len(Ellipsis) + i] = Ellipsis[i]

\* C24: a selected line no longer than max_len is returned verbatim, and is
\* one of the normalized lines; a longer one gives a prefix of the line
\* followed by "...".
C24_VerbatimOrPrefixEllipsis ==
  Selected =>
    \A lines \in {SnippetLinesOfCall} :
      lines # <<>> =>
        \E line \in Range(lines) :
          IF Len(line) <= call.args[2]
          THEN ret = line
          ELSE PrefixThenEllipsis(ret, line)

\* a line longer than max_len is cut to a non-empty prefix and "..."
C24_Witness ==
  /\ Selected
  /\ \E line \in Range(SnippetLinesOfCall) :
       /\ Len(line) > call.args[2]
       /\ Len(ret) > Len(Ellipsis)
       /\ PrefixThenEllipsis(ret, line)

----------------------------------------------------------------------------
(* Letter case and the rule evaluators.                                    *)

Evaluators ==
  {"review_d3", "review_d4", "review_d5", "review_d6", "review_d7", "review_d8"}

\* the evaluator of the call applied to another section text
ReviewOf(text) ==
  CASE call.fn = "review_d3" -> review_d3(text)
    [] call.fn = "review_d4" -> review_d4(text)
    [] call.fn = "review_d5" -> review_d5(text, call.args[2])
    [] call.fn = "review_d6" -> review_d6(text)
    [] call.fn = "review_d7" -> review_d7(text)
    [] call.fn = "review_d8" -> review_d8(text)

\* the upper case of a character: A-Z for a-z, I for the dotless i, SS for
\* the sharp s, and the character itself otherwise
UpperChar(c) ==
  IF c \in Range(LowerCase) THEN <<UpperCase[IndexOf(c, LowerCase)]>>
  ELSE IF c = "U+0131" THEN <<"I">>
  ELSE IF c = "U+00DF" THEN <<"S", "S">>
  ELSE <<c>>

\* the text in upper case
Upper(s) == Flatten([i \in 1..Len(s) |-> UpperChar(s[i])])

\* C25: every evaluator returns the same result on a text and on the text
\* with the case of its letters changed (to upper case, to lower case).
C25_SameResultInEitherCase ==
  call.fn \in Evaluators =>
    /\ ReviewOf(Upper(call.args[1])) = ret
    /\ ReviewOf(Lower(call.args[1])) = ret

\* C25 for the letters A-Z and a-z only: a text without other cased letters
\* gets the same result in upper and in lower case.
C25_SameResultForAsciiLetters ==
  call.fn \in Evaluators /\ Range(call.args[1]) \cap {"U+0131", "U+00DF"} = {} =>
    /\ ReviewOf(Upper(call.args[1])) = ret
    /\ ReviewOf(Lower(call.args[1])) = ret

----------------------------------------------------------------------------
(* The rule evaluators under text extension.                               *)

\* the texts that occur in b as a prefix, as a suffix, or in its middle with
\* as many characters dropped in front as behind
PartsOf(b) ==
  { SubSeq(b, 1, j) : j \in 0..Len(b) }
    \cup { SubSeq(b, i, Len(b)) : i \in 1..(Len(b) + 1) }
    \cup { SubSeq(b, 1 + i, Len(b) - i) : i \in 0..(Len(b) \div 2) }

\* the texts B that are taken apart: those of at most MaxExtended fragments
MaxExtended == 2

ExtendedTexts ==
  UNION { TextsOf(frags, MaxExtended) : frags \in {D3Frags, D4Frags, D5Frags, D6Frags, D7Frags} }

\* the flags of a result that are set, passed among them
FlagsSet(r) ==
  { f \in DOMAIN r \cap {"passed", "has_system_analysis", "has_measures", "has_owner",
                         "has_deadline", "has_production_verification",
                         "has_experiment_verification", "has_data",
                         "has_doc_revision", "has_training"} : r[f] }

\* the categories a result lists as found
CategoriesFound(r) ==
  IF "found_locations" \in DOMAIN r THEN Range(r.found_locations)
  ELSE IF "found_analysis" \in DOMAIN r THEN Range(r.found_analysis)
  ELSE {}

\* C28: for each of review_d3 .. review_d7 and every text A that occurs in the
\* text B of the call, each category and flag found for A is found for B, and
\* passed(A) implies passed(B).
C28_MonotoneUnderExtension ==
  call.fn \in Evaluators \ {"review_d8"} /\ call.args[1] \in ExtendedTexts =>
    \A a \in PartsOf(call.args[1]) :
      \A ra \in {ReviewOf(a)} :
        /\ FlagsSet(ra) \subseteq FlagsSet(ret)
        /\ CategoriesFound(ra) \subseteq CategoriesFound(ret)

\* a text that passes although a part of it fails: the extension turned a
\* failing section into a passing one
C28_Witness ==
  /\ call.fn \in Evaluators \ {"review_d8"}
  /\ call.args[1] \in ExtendedTexts
  /\ ret.passed
  /\ \E a \in PartsOf(call.args[1]) :
       /\ a # <<>>
       /\ ~ReviewOf(a).passed
       /\ FlagsSet(ReviewOf(a)) # {}

----------------------------------------------------------------------------
(* The segmenter on well-formed documents.                                 *)

\* the indices at which the token "D<digit>" occurs, in either case
TokenPositions(digit, t) ==
  {p \in 1..(Len(t) - 1) : LowerChar(t[p]) = "d" /\ t[p + 1] = digit}

\* every label token occurs exactly once, a delimiter follows it, and the
\* tokens occur in the order D1 < D2 < ... < D8
WellFormed(t) ==
  /\ \A i \in 1..8 :
       /\ Cardinality(TokenPositions(LabelDigits[i], t)) = 1
       /\ \A p \in TokenPositions(LabelDigits[i], t) :
            p + 2 <= Len(t) /\ t[p + 2] \in Delimiters
  /\ \A i \in 1..7 :
       \A p \in TokenPositions(LabelDigits[i], t), q \in TokenPositions(LabelDigits[i + 1], t) :
         p < q

\* the index of the only token Li
TokenAt(i, t) == CHOOSE p \in TokenPositions(LabelDigits[i], t) : TRUE

\* the text from after the token Li to before the token L(i+1), or to the end
\* of the text for D8
Between(i, t) ==
  SubSeq(t, TokenAt(i, t) + 2, IF i = 8 THEN Len(t) ELSE TokenAt(i + 1, t) - 1)

\* the sum of the lengths of the sections D1..Dn of a section map
RECURSIVE TotalLength(_, _)
TotalLength(sections, n) ==
  IF n = 0 THEN 0 ELSE Len(sections[patterns[n].section]) + TotalLength(sections, n - 1)

\* C29: on a well-formed document section Li is exactly the text between the
\* token Li and the token L(i+1) (the end of the text for D8), without the
\* delimiters after the label and trimmed; the sections lie in disjoint parts
\* of the text, so together they are no longer than the text without its
\* eight tokens.
C29_SectionsAreTheTokenPartition ==
  Segmented /\ WellFormed(call.args[1]) =>
    /\ \A i \in 1..8 :
         ret[patterns[i].section]
           = DropTrailing(DropLeading(Between(i, call.args[1]), Delimiters), Whitespace)
    /\ TotalLength(ret, 8) + 2 * 8 <= Len(call.args[1])

\* a well-formed document with a preamble, lower-case labels and eight
\* sections that are not empty
C29_Witness ==
  /\ Segmented
  /\ WellFormed(call.args[1])
  /\ TokenAt(1, call.args[1]) > 1
  /\ call.args[1][TokenAt(1, call.args[1])] = "d"
  /\ \A i \in 1..8 : ret[patterns[i].section] # <<>>

----------------------------------------------------------------------------
(* Report files: the logic-audit gate and unreadable documents.            *)

\* an optional text that is given and has a character that is not whitespace
NonBlank(optional) ==
  optional # <<>> /\ \E i \in 1..Len(optional[1]) : optional[1][i] \notin Whitespace

\* the step is a call of save_review_report
SaveStep == call = NoCall /\ call'.fn = "save_review_report"

\* C26: a save_review_report call with require_logic_audit true and a missing
\* or blank logic_review_md writes no file and, for a readable document,
\* returns "needs_logic_audit" with the packet; in any sequence of calls a
\* file is written only by a save_review_report call with a non-blank
\* logic_review_md or with require_logic_audit false; logic_review_included
\* is true exactly when logic_review_md is non-blank.
C26_NoReportWithoutAuditOrWaiver ==
  [][ /\ files' # files =>
           SaveStep /\ (NonBlank(call'.args[3]) \/ ~call'.args[4])
      /\ SaveStep /\ call'.args[4] /\ ~NonBlank(call'.args[3]) =>
           /\ files' = files
           /\ call'.args[1].readable =>
                /\ ret'.status = "needs_logic_audit"
                /\ ret'.logic_audit_packet.status = "success"
                /\ DOMAIN ret'.logic_audit_packet.source_sections = CriticalLabels
      /\ SaveStep /\ ret'.status = "success" =>
           ret'.logic_review_included = NonBlank(call'.args[3]) ]_vars

\* a call with a blank audit is turned back after a report was written by an
\* earlier call
C26_Witness ==
  /\ call.fn = "save_review_report"
  /\ call.args[4] /\ call.args[3] # <<>> /\ call.args[3][1] # <<>> /\ ~NonBlank(call.args[3])
  /\ ret.status = "needs_logic_audit"
  /\ DOMAIN files # {}

\* the step is a call of one of the three tools on a file that cannot be read
UnreadableStep ==
  /\ call = NoCall
  /\ call'.fn \in {"review_8d_report", "prepare_logic_audit_packet", "save_review_report"}
  /\ ~call'.args[1].readable

\* C27: when the document cannot be read, review_8d_report and
\* prepare_logic_audit_packet return the reader's error result, with no
\* reviews and no verdict, and save_review_report returns status "error" and
\* writes no file, with or without logic_review_md.
C27_UnreadableDocumentIsAnError ==
  [][ UnreadableStep =>
        /\ ret'.status = "error"
        /\ files' = files
        /\ DOMAIN ret' \cap {"reviews", "verdict", "overall_passed", "failed_sections"} = {}
        /\ call'.fn # "save_review_report" =>
             ret' = [status |-> "error", message |-> "document cannot be opened"] ]_vars

\* save_review_report with an audit on a file that cannot be read
C27_Witness ==
  /\ call.fn = "save_review_report"
  /\ ~call.args[1].readable
  /\ NonBlank(call.args[3])
  /\ ret.status = "error"

----------------------------------------------------------------------------
(* The experience store under calls that run at the same time.             *)

\* the calls that have returned with success
SavedBy == {p \in Reviews : threads[p].pc = "returned" /\ threads[p].ret.status = "success"}

\* no call is in progress
Quiet == \A p \in Reviews : threads[p].pc \in {"idle", "returned"}

\* C30: after save_experience calls with distinct keys have run, interleaved
\* in any way, the store holds the entry of every key that was saved.
C30_StoreKeepsEverySavedEntry ==
  (Quiet /\ \A p, q \in SavedBy : p # q => threads[p].key # threads[q].key) =>
    \A p \in SavedBy :
      /\ EXPERIENCE_FILE \in DOMAIN files
      /\ files[EXPERIENCE_FILE].kind = "json"
      /\ threads[p].key \in DOMAIN files[EXPERIENCE_FILE].data
      /\ files[EXPERIENCE_FILE].data[threads[p].key].summary = threads[p].summary

=============================================================================
